---- MODULE Spec2Model ----
(***************************************************************************)
(* Model of omni-crudder's filter translation engine:                      *)
(*   - convertMongoFilterToSQL (utils/mongoToSQL.utils.js): MongoDB-style  *)
(*     filter document -> parameterized WHERE clause + parameter list;     *)
(*   - parseSQLFilter.FilterParse (utils/filter.utils.js): filter document *)
(*     -> operator tree keyed by the caller's Op tokens.                   *)
(*                                                                         *)
(* JavaScript values are tagged records [t |-> tag, v |-> payload]:        *)
(*   "num"  a number            "str"  a string, as a sequence of chars    *)
(*   "null" null                "arr"  an array, as a sequence of values   *)
(*   "obj"  a plain object, as the sequence of its [k, v] entries in       *)
(*          Object.keys order   "regexp" a RegExp, payload its source      *)
(*   "date" a Date                                                         *)
(* A WHERE clause is a sequence of tokens: [t |-> "txt", v |-> text] for   *)
(* literal SQL text and [t |-> "ph", v |-> x] for one '?' placeholder,     *)
(* where x records the value that was pushed when the '?' was emitted.     *)
(* Render turns a clause into the string the code builds.                  *)
(***************************************************************************)
EXTENDS Integers, Sequences, FiniteSets, TLC

VARIABLES filter, sqlResult, treeResult, earlier, walk, crudder, req, res

vars == <<filter, sqlResult, treeResult, earlier, walk, crudder, req, res>>

\* The state of the translator calls, and the state of the request handlers.
translatorVars == <<filter, sqlResult, treeResult, earlier, walk>>
handlerVars == <<crudder, req, res>>

(***************************************************************************)
(* Bounds of the input space.                                              *)
(***************************************************************************)
MaxBodyLen == 3   \* longest enumerated pattern body, in characters
MaxArr == 2       \* longest enumerated $in / $nin operand array
MaxSub == 2       \* longest sub-filter list under a combinator
MaxKeys == 2      \* most keys in one enumerated document or operator object
MaxDepth == 2     \* deepest nesting of combinators
MaxDocs == 2      \* most rows a where clause matches
MaxRequests == 3  \* most delete requests one after another

(***************************************************************************)
(* JavaScript values.                                                      *)
(***************************************************************************)
Num(n) == [t |-> "num", v |-> n]
Str(s) == [t |-> "str", v |-> s]
Null == [t |-> "null", v |-> 0]
Arr(a) == [t |-> "arr", v |-> a]
Obj(e) == [t |-> "obj", v |-> e]
RegExpOf(s) == [t |-> "regexp", v |-> s]
DateOf(n) == [t |-> "date", v |-> n]
KV(k, x) == [k |-> k, v |-> x]

\* String.prototype.charAt: "" when the index is out of range.
charAt(s, i) == IF i >= 0 /\ i < Len(s) THEN s[i + 1] ELSE ""

\* String.prototype.substring(a, b) for 0 <= a and any b.
substring(s, a, b) ==
    LET hi == IF b > Len(s) THEN Len(s) ELSE b
    IN IF a >= hi THEN <<>> ELSE SubSeq(s, a + 1, hi)

\* Array.isArray
IsArray(x) == x.t = "arr"

\* Object.keys(x) paired with x[key]: the entries of a plain object, or the
\* index/element pairs of an array; other objects (Date, RegExp) have none.
Entries(x) ==
    IF x.t = "obj" THEN x.v
    ELSE IF x.t = "arr" THEN [i \in 1..Len(x.v) |-> KV(ToString(i - 1), x.v[i])]
    ELSE <<>>

\* The keys of the universe whose first character is '$'.
SigilKeys ==
    {"$eq", "$ne", "$gt", "$gte", "$lt", "$lte", "$in", "$nin", "$regex",
     "$not", "$like", "$exists", "$and", "$or", "$nor"}

\* key.charAt(0) === '$'
StartsWithSigil(k) == k \in SigilKeys

(***************************************************************************)
(* utils/mongoToSQL.utils.js                                               *)
(***************************************************************************)
Txt(s) == [t |-> "txt", v |-> s]
Ph(x) == [t |-> "ph", v |-> x]

\* A call that returned a clause, with the parameter array as it then is.
Ok(clause, parameters) ==
    [err |-> "", clause |-> clause, parameters |-> parameters]

\* A call that threw.
Throw(msg) == [err |-> msg, clause |-> <<>>, parameters |-> <<>>]

\* Array.prototype.join on clauses
RECURSIVE Join(_, _)
Join(clauses, sep) ==
    IF clauses = <<>> THEN <<>>
    ELSE IF Len(clauses) = 1 THEN clauses[1]
    ELSE clauses[1] \o <<Txt(sep)>> \o Join(Tail(clauses), sep)

\* `(${...})`
Paren(clause) == <<Txt("(")>> \o clause \o <<Txt(")")>>

\* isSlashPattern looking at the first character only.
isSlashPattern_firstOnly(value) ==
    /\ value.t = "str"
    /\ Len(value.v) >= 2
    /\ charAt(value.v, 0) = "/"

isSlashPattern(value) ==
    /\ value.t = "str"
    /\ Len(value.v) >= 2
    /\ charAt(value.v, 0) = "/"
    /\ charAt(value.v, Len(value.v) - 1) = "/"

\* convertSlashPatternToLike testing the '$' anchor on the string with its slashes.
convertSlashPatternToLike_dollarOnRaw(pattern) ==
    LET innerPattern == substring(pattern, 1, Len(pattern) - 1)
        startsWithCaret == charAt(innerPattern, 0) = "^"
        endsWithDollar == charAt(pattern, Len(pattern) - 1) = "$"
        cleanPattern == IF startsWithCaret
                        THEN substring(innerPattern, 1, Len(innerPattern))
                        ELSE innerPattern
        like1 == IF ~startsWithCaret THEN <<"%">> \o cleanPattern ELSE cleanPattern
    IN IF ~endsWithDollar THEN like1 \o <<"%">> ELSE like1

convertSlashPatternToLike(pattern) ==
    LET innerPattern == substring(pattern, 1, Len(pattern) - 1)
        startsWithCaret == charAt(innerPattern, 0) = "^"
        endsWithDollar == charAt(innerPattern, Len(innerPattern) - 1) = "$"
        clean1 == IF startsWithCaret
                  THEN substring(innerPattern, 1, Len(innerPattern))
                  ELSE innerPattern
        cleanPattern == IF endsWithDollar
                        THEN substring(clean1, 0, Len(clean1) - 1)
                        ELSE clean1
        like1 == IF ~startsWithCaret THEN <<"%">> \o cleanPattern ELSE cleanPattern
    IN IF ~endsWithDollar THEN like1 \o <<"%">> ELSE like1

\* pattern.replace(/%/g, '\\%').replace(/_/g, '\\_')
RECURSIVE escapeLike(_)
escapeLike(s) ==
    IF s = <<>> THEN <<>>
    ELSE (IF Head(s) \in {"%", "_"} THEN <<"\\", Head(s)>> ELSE <<Head(s)>>)
         \o escapeLike(Tail(s))

\* convertRegexToLike for a RegExp or a string operand.
convertRegexToLike(regex) ==
    LET pattern0 == regex.v
        startsWithCaret == charAt(pattern0, 0) = "^"
        endsWithDollar == charAt(pattern0, Len(pattern0) - 1) = "$"
        p1 == IF startsWithCaret THEN substring(pattern0, 1, Len(pattern0))
              ELSE pattern0
        p2 == IF endsWithDollar THEN substring(p1, 0, Len(p1) - 1) ELSE p1
        pattern == escapeLike(p2)
        like1 == IF ~startsWithCaret THEN <<"%">> \o pattern ELSE pattern
    IN IF ~endsWithDollar THEN like1 \o <<"%">> ELSE like1

\* parameters.push(value); return `${field} <sym> ?`
Compare(field, sym, value, parameters) ==
    Ok(<<Txt(field), Txt(sym), Ph(value)>>, Append(parameters, value))

\* value.map(v => { parameters.push(v); return '?'; }).join(', ')
Placeholders(arr) == Join([i \in 1..Len(arr) |-> <<Ph(arr[i])>>], ", ")

\* InList binding the whole array to a single placeholder.
InList_singleParameter(field, kw, arr, parameters) ==
    Ok(<<Txt(field), Txt(kw), Ph(Arr(arr)), Txt(")")>>, Append(parameters, Arr(arr)))

InList(field, kw, arr, parameters) ==
    Ok(<<Txt(field), Txt(kw)>> \o Placeholders(arr) \o <<Txt(")")>>, parameters \o arr)

RECURSIVE processOperator(_, _, _, _)
RECURSIVE processOperators(_, _, _)
RECURSIVE processFieldValue(_, _, _)
RECURSIVE mapSubFilters(_, _)
RECURSIVE convertKeys(_, _)
RECURSIVE convertMongoFilterToSQL(_, _)

\* The first failure ends the map; otherwise the condition joins the list.
Prepend(first, rest) ==
    IF rest.err # "" THEN rest
    ELSE Ok(<<first.clause>> \o rest.clause, rest.parameters)

\* negated handing the inner condition back without the negation.
negated_dropped(notCondition) == notCondition

\* return `NOT (${notCondition})`
negated(notCondition) ==
    IF notCondition.err # "" THEN notCondition
    ELSE Ok(<<Txt("NOT (")>> \o notCondition.clause \o <<Txt(")")>>,
            notCondition.parameters)

processOperator(field, operator, value, parameters) ==
    CASE operator = "$eq" -> Compare(field, " = ", value, parameters)
      [] operator = "$ne" -> Compare(field, " != ", value, parameters)
      [] operator = "$gt" -> Compare(field, " > ", value, parameters)
      [] operator = "$gte" -> Compare(field, " >= ", value, parameters)
      [] operator = "$lt" -> Compare(field, " < ", value, parameters)
      [] operator = "$lte" -> Compare(field, " <= ", value, parameters)
      [] operator = "$in" ->
            IF ~IsArray(value) THEN Throw("$in operator requires an array value")
            ELSE InList(field, " IN (", value.v, parameters)
      [] operator = "$nin" ->
            IF ~IsArray(value) THEN Throw("$nin operator requires an array value")
            ELSE InList(field, " NOT IN (", value.v, parameters)
      [] operator = "$regex" ->
            Compare(field, " LIKE ", Str(convertRegexToLike(value)), parameters)
      [] operator = "$not" ->
            negated(processFieldValue(field, value, parameters))
      [] OTHER -> Throw("Unsupported MongoDB operator: " \o operator)

\* The operators after the first one, which pushed onto the same array.
thenOperators(first, field, entries) ==
    IF first.err # "" THEN first
    ELSE Prepend(first, processOperators(field, entries, first.parameters))

\* keys.map(operator => processOperator(field, operator, value[operator], parameters))
\* The result's clause field holds the list of conditions.
processOperators(field, entries, parameters) ==
    IF entries = <<>> THEN Ok(<<>>, parameters)
    ELSE thenOperators(processOperator(field, entries[1].k, entries[1].v, parameters),
                       field, Tail(entries))

\* combineOperators without the group around several conditions.
combineOperators_ungrouped(conditions) == Join(conditions, " AND ")

\* conditions.length > 1 ? `(${conditions.join(' AND ')})` : conditions[0]
combineOperators(conditions) ==
    IF Len(conditions) > 1 THEN Paren(Join(conditions, " AND ")) ELSE conditions[1]

\* The conditions of one operator object as a single condition.
combined(r) ==
    IF r.err # "" THEN r ELSE Ok(combineOperators(r.clause), r.parameters)

processFieldValue(field, value, parameters) ==
    IF isSlashPattern(value)
    THEN Compare(field, " LIKE ", Str(convertSlashPatternToLike(value.v)), parameters)
    ELSE IF /\ value.t \in {"obj", "regexp"}
            /\ Len(Entries(value)) > 0
            /\ StartsWithSigil(Entries(value)[1].k)
    THEN combined(processOperators(field, Entries(value), parameters))
    ELSE Compare(field, " = ", value, parameters)

\* The sub-filters after the first one, which left the array as it found it.
thenSubFilters_unshared(first, subs, parameters) ==
    IF first.err # "" THEN first
    ELSE Prepend(first, mapSubFilters(subs, parameters))

\* The sub-filters after the first one: a sub-filter that reached its key loop
\* pushed onto the caller's array, one that returned early left it untouched.
thenSubFilters(first, subs, parameters) ==
    IF first.err # "" THEN first
    ELSE Prepend(first, mapSubFilters(subs, IF first.shared THEN first.parameters
                                            ELSE parameters))

\* mapSubFilters with each recursive call collecting into an array of its own.
mapSubFilters_ownParameters(subs, parameters) ==
    IF subs = <<>> THEN Ok(<<>>, parameters)
    ELSE thenSubFilters_unshared(convertMongoFilterToSQL(subs[1], <<>>),
                                 Tail(subs), parameters)

\* value.map(subFilter => convertMongoFilterToSQL(subFilter, parameters).whereClause)
\* The result's clause field holds the list of sub-clauses, empty ones included.
mapSubFilters(subs, parameters) ==
    IF subs = <<>> THEN Ok(<<>>, parameters)
    ELSE thenSubFilters(convertMongoFilterToSQL(subs[1], parameters),
                        Tail(subs), parameters)

\* .filter(c => c)
RECURSIVE filterNonEmpty(_)
filterNonEmpty(clauses) ==
    IF clauses = <<>> THEN <<>>
    ELSE (IF Head(clauses) # <<>> THEN <<Head(clauses)>> ELSE <<>>)
         \o filterNonEmpty(Tail(clauses))

\* `(${andConditions.join(' AND ')})`
andGroup(andConditions) == Paren(Join(andConditions, " AND "))

\* `(${orConditions.join(' OR ')})`
orGroup(orConditions) == Paren(Join(orConditions, " OR "))

\* norGroup negating each sub-clause instead of the group.
norGroup_negateEach(norConditions) ==
    Paren(Join([i \in 1..Len(norConditions) |->
                   <<Txt("NOT (")>> \o norConditions[i] \o <<Txt(")")>>], " OR "))

\* `NOT (${norConditions.join(' OR ')})`
norGroup(norConditions) ==
    <<Txt("NOT (")>> \o Join(norConditions, " OR ") \o <<Txt(")")>>

\* if (xConditions.length > 0) { conditions.push(<group>) }
\* The result's clause field holds what the key adds to `conditions`.
pushGroup(key, r) ==
    LET kept == filterNonEmpty(r.clause)
    IN IF r.err # "" THEN r
       ELSE IF kept = <<>> THEN Ok(<<>>, r.parameters)
       ELSE Ok(<<CASE key = "$and" -> andGroup(kept)
                   [] key = "$or" -> orGroup(kept)
                   [] key = "$nor" -> norGroup(kept)>>,
               r.parameters)

\* logical taking a non-array operand for an empty list.
logical_lenient(key, value, parameters) ==
    pushGroup(key, mapSubFilters(IF IsArray(value) THEN value.v ELSE <<>>, parameters))

\* One logical operator key of the document loop.
logical(key, value, parameters) ==
    IF ~IsArray(value) THEN Throw(key \o " operator requires an array")
    ELSE pushGroup(key, mapSubFilters(value.v, parameters))

\* if (condition) { conditions.push(condition) } of a field key
pushCondition(condition) ==
    IF condition.err # "" THEN condition
    ELSE IF condition.clause = <<>> THEN Ok(<<>>, condition.parameters)
    ELSE Ok(<<condition.clause>>, condition.parameters)

\* `conditions` after the remaining keys have pushed behind those of `rest`'s
\* predecessor.
pushedAfter(first, rest) ==
    IF rest.err # "" THEN rest
    ELSE Ok(first.clause \o rest.clause, rest.parameters)

\* thenKeys going on with the remaining keys after a key that failed.
thenKeys_skipFailed(first, entries) ==
    IF first.err # "" THEN convertKeys(entries, <<>>)
    ELSE pushedAfter(first, convertKeys(entries, first.parameters))

\* The keys after the first one.
thenKeys(first, entries) ==
    IF first.err # "" THEN first
    ELSE pushedAfter(first, convertKeys(entries, first.parameters))

\* for (const key of keys) { ... }: the result's clause field holds `conditions`.
convertKeys(entries, parameters) ==
    IF entries = <<>> THEN Ok(<<>>, parameters)
    ELSE thenKeys(IF entries[1].k \in {"$and", "$or", "$nor"}
                  THEN logical(entries[1].k, entries[1].v, parameters)
                  ELSE pushCondition(processFieldValue(entries[1].k, entries[1].v,
                                                       parameters)),
                  Tail(entries))

\* joinConditions grouping several conditions in parentheses.
joinConditions_parenthesized(conditions) ==
    IF Len(conditions) > 1 THEN Paren(Join(conditions, " AND "))
    ELSE IF conditions = <<>> THEN <<>> ELSE conditions[1]

\* conditions.length > 1 ? conditions.join(' AND ') : conditions[0] || ''
joinConditions(conditions) ==
    IF Len(conditions) > 1 THEN Join(conditions, " AND ")
    ELSE IF conditions = <<>> THEN <<>> ELSE conditions[1]

\* return { whereClause, parameters } after the key loop
returned(r) ==
    IF r.err # ""
    THEN [err |-> r.err, clause |-> <<>>, parameters |-> <<>>, shared |-> FALSE]
    ELSE [err |-> "", clause |-> joinConditions(r.clause),
          parameters |-> r.parameters, shared |-> TRUE]

\* convertMongoFilterToSQL guarding with typeof alone: Object.keys(null) throws.
convertMongoFilterToSQL_typeofOnly(f, parameters) ==
    IF f.t = "null"
    THEN [err |-> "Cannot convert undefined or null to object", clause |-> <<>>,
          parameters |-> <<>>, shared |-> FALSE]
    ELSE IF f.t \notin {"obj", "arr", "regexp", "date"} \/ Len(Entries(f)) = 0
    THEN [err |-> "", clause |-> <<>>, parameters |-> <<>>, shared |-> FALSE]
    ELSE returned(convertKeys(Entries(f), parameters))

\* `shared` tells whether the returned parameters array is the one passed in
\* (the early returns hand back a fresh empty array instead).
convertMongoFilterToSQL(f, parameters) ==
    IF f.t \notin {"obj", "arr", "regexp", "date"}
    THEN [err |-> "", clause |-> <<>>, parameters |-> <<>>, shared |-> FALSE]
    ELSE IF Len(Entries(f)) = 0
    THEN [err |-> "", clause |-> <<>>, parameters |-> <<>>, shared |-> FALSE]
    ELSE returned(convertKeys(Entries(f), parameters))

\* The string a clause stands for.
RECURSIVE Render(_)
Render(clause) ==
    IF clause = <<>> THEN ""
    ELSE (IF Head(clause).t = "ph" THEN "?" ELSE Head(clause).v) \o Render(Tail(clause))

(***************************************************************************)
(* utils/filter.utils.js: parseSQLFilter                                   *)
(* The tree is a JavaScript value whose operator keys are the caller's Op  *)
(* tokens; the token of name n is written "Op.n".                          *)
(***************************************************************************)
Op ==
    [eq |-> "Op.eq", ne |-> "Op.ne", gt |-> "Op.gt", gte |-> "Op.gte",
     lt |-> "Op.lt", lte |-> "Op.lte", in |-> "Op.in", notIn |-> "Op.notIn",
     like |-> "Op.like", notLike |-> "Op.notLike", iLike |-> "Op.iLike",
     notILike |-> "Op.notILike", regexp |-> "Op.regexp",
     notRegexp |-> "Op.notRegexp", between |-> "Op.between",
     notBetween |-> "Op.notBetween", is |-> "Op.is", not |-> "Op.not",
     and |-> "Op.and", or |-> "Op.or"]

\* A call that returned `tree`.
Ret(tree) == [err |-> "", tree |-> tree]

\* A call that threw.
Raise(msg) == [err |-> msg, tree |-> Null]

\* obj[k] = x on the entry list of an object
Put(entries, k, x) ==
    IF \E i \in 1..Len(entries) : entries[i].k = k
    THEN [i \in 1..Len(entries) |->
            IF entries[i].k = k THEN KV(k, x) ELSE entries[i]]
    ELSE Append(entries, KV(k, x))

\* Assign keeping nothing of the target.
Assign_replacing(result, converted) == converted

\* Object.assign(result, converted)
RECURSIVE Assign(_, _)
Assign(result, converted) ==
    IF converted = <<>> THEN result
    ELSE Assign(Put(result, Head(converted).k, Head(converted).v), Tail(converted))

tree_isSlashPattern(value) ==
    /\ value.t = "str"
    /\ Len(value.v) >= 2
    /\ charAt(value.v, 0) = "/"
    /\ charAt(value.v, Len(value.v) - 1) = "/"

tree_convertSlashPatternToLike(pattern) ==
    LET innerPattern == substring(pattern, 1, Len(pattern) - 1)
        startsWithCaret == charAt(innerPattern, 0) = "^"
        endsWithDollar == charAt(innerPattern, Len(innerPattern) - 1) = "$"
        clean1 == IF startsWithCaret
                  THEN substring(innerPattern, 1, Len(innerPattern))
                  ELSE innerPattern
        cleanPattern == IF endsWithDollar
                        THEN substring(clean1, 0, Len(clean1) - 1)
                        ELSE clean1
        like1 == IF ~startsWithCaret THEN <<"%">> \o cleanPattern ELSE cleanPattern
    IN IF ~endsWithDollar THEN like1 \o <<"%">> ELSE like1

\* The keys of operatorMap, each with the token it maps to.
operatorMap ==
    {<<"$eq", Op.eq>>, <<"$ne", Op.ne>>, <<"$gt", Op.gt>>, <<"$gte", Op.gte>>,
     <<"$lt", Op.lt>>, <<"$lte", Op.lte>>, <<"$in", Op.in>>, <<"$nin", Op.notIn>>,
     <<"$like", Op.like>>, <<"$notLike", Op.notLike>>, <<"$iLike", Op.iLike>>,
     <<"$notILike", Op.notILike>>, <<"$regexp", Op.regexp>>,
     <<"$notRegexp", Op.notRegexp>>, <<"$between", Op.between>>,
     <<"$notBetween", Op.notBetween>>, <<"$is", Op.is>>, <<"$not", Op.not>>}

\* What operatorMap, an object literal, inherits from Object.prototype: the
\* property names, each with the string its value makes as a computed key.
inheritedMap ==
    {<<"constructor", "function Object() { [native code] }">>,
     <<"toString", "function toString() { [native code] }">>}

\* const seqOp = operatorMap[operator]; if (!seqOp) { throw ... }
InOperatorMap(operator) == \E e \in operatorMap \cup inheritedMap : e[1] = operator
seqOpOf(operator) ==
    (CHOOSE e \in operatorMap \cup inheritedMap : e[1] = operator)[2]

RECURSIVE convertOperator(_, _)
RECURSIVE convertOperators(_, _)
RECURSIVE convertValue(_)
RECURSIVE mapFilterParse(_)
RECURSIVE parseKeys(_, _)
RECURSIVE FilterParse(_)

\* The $regex branch after the lookup (never reached: "$regex" is no key of
\* operatorMap, so the lookup throws first).
regexBranch(value) ==
    LET pattern0 == value.v
        startsWithCaret == charAt(pattern0, 0) = "^"
        endsWithDollar == charAt(pattern0, Len(pattern0) - 1) = "$"
        p1 == IF startsWithCaret THEN substring(pattern0, 1, Len(pattern0))
              ELSE pattern0
        pattern == IF endsWithDollar THEN substring(p1, 0, Len(p1) - 1) ELSE p1
        like1 == IF ~startsWithCaret THEN <<"%">> \o pattern ELSE pattern
    IN Ret(Obj(<<KV(Op.like, Str(IF ~endsWithDollar THEN like1 \o <<"%">> ELSE like1))>>))

convertOperator(operator, value) ==
    IF ~InOperatorMap(operator) THEN Raise("Unsupported operator: " \o operator)
    ELSE IF operator = "$regex" THEN regexBranch(value)
    ELSE IF operator = "$not"
    THEN LET inner == convertValue(value)
         IN IF inner.err # "" THEN inner
            ELSE Ret(Obj(<<KV(Op.not, inner.tree)>>))
    ELSE Ret(Obj(<<KV(seqOpOf(operator), value)>>))

\* for (const operator in value) { Object.assign(result, convertOperator(...)) }
convertOperators(entries, result) ==
    IF entries = <<>> THEN Ret(Obj(result))
    ELSE LET converted == convertOperator(entries[1].k, entries[1].v)
         IN IF converted.err # "" THEN converted
            ELSE convertOperators(Tail(entries), Assign(result, converted.tree.v))

convertValue(value) ==
    IF value.t = "null" THEN Ret(Obj(<<KV(Op.eq, value)>>))
    ELSE IF tree_isSlashPattern(value)
    THEN Ret(Obj(<<KV(Op.like, Str(tree_convertSlashPatternToLike(value.v)))>>))
    ELSE IF value.t = "date" THEN Ret(Obj(<<KV(Op.eq, value)>>))
    ELSE IF IsArray(value) THEN Ret(Obj(<<KV(Op.in, value)>>))
    ELSE IF /\ value.t \in {"obj", "regexp"}
            /\ Len(Entries(value)) > 0
            /\ StartsWithSigil(Entries(value)[1].k)
    THEN convertOperators(Entries(value), <<>>)
    ELSE Ret(Obj(<<KV(Op.eq, value)>>))

\* value.map(subFilter => this.FilterParse(subFilter, Op))
mapFilterParse(subs) ==
    IF subs = <<>> THEN Ret(Arr(<<>>))
    ELSE LET first == FilterParse(subs[1])
         IN IF first.err # "" THEN first
            ELSE LET rest == mapFilterParse(Tail(subs))
                 IN IF rest.err # "" THEN rest
                    ELSE Ret(Arr(<<first.tree>> \o rest.tree.v))

\* for (const key in filter) { ... } on the entries left, `result` so far
parseKeys(entries, result) ==
    IF entries = <<>> THEN Ret(Obj(result))
    ELSE LET key == entries[1].k
             value == entries[1].v
         IN IF key \in {"$and", "$or", "$nor"}
            THEN IF ~IsArray(value) THEN Raise(key \o " operator requires an array")
                 ELSE LET subs == mapFilterParse(value.v)
                      IN IF subs.err # "" THEN subs
                         ELSE parseKeys(Tail(entries),
                                CASE key = "$and" -> Put(result, Op.and, subs.tree)
                                  [] key = "$or" -> Put(result, Op.or, subs.tree)
                                  [] key = "$nor" ->
                                       Put(result, Op.not, Obj(<<KV(Op.or, subs.tree)>>)))
            ELSE LET c == convertValue(value)
                 IN IF c.err # "" THEN c
                    ELSE parseKeys(Tail(entries), Put(result, key, c.tree))

FilterParse(f) ==
    IF f.t \notin {"obj", "regexp", "date"} THEN Ret(f)
    ELSE parseKeys(Entries(f), <<>>)

(***************************************************************************)
(* The filter documents handed to the translators.                         *)
(***************************************************************************)
\* All sequences over S of length lo..hi.
SeqsOf(S, lo, hi) == UNION {[1..n -> S] : n \in lo..hi}

\* An entry list names each key once, as the keys of an object do.
DistinctKeys(entries) ==
    \A i, j \in 1..Len(entries) : entries[i].k = entries[j].k => i = j

Doc1(k, x) == Obj(<<KV(k, x)>>)

Active == Str(<<"a", "c", "t", "i", "v", "e">>)
Pending == Str(<<"p", "e", "n", "d", "i", "n", "g">>)
John == Str(<<"/", "j", "o", "h", "n", "/">>)

Scalars == {Num(18), Num(25), Num(65), Active, Pending, Null}

\* Strings over the characters the pattern compilers look at: every body
\* between two slashes, and the short strings around the slash-literal test.
PatChars == {"/", "^", "$", "a", "%"}
PatternStrings ==
    {Str(<<"/">> \o b \o <<"/">>) : b \in SeqsOf(PatChars, 0, MaxBodyLen)}
    \cup {Str(s) : s \in SeqsOf({"/", "a"}, 0, 2)}

RegexChars == {"^", "$", "a", "%", "_"}
RegexOperands ==
    {Str(s) : s \in SeqsOf(RegexChars, 0, MaxBodyLen)}
    \cup {RegExpOf(s) : s \in SeqsOf({"^", "a"}, 1, 2)}

Arrays == {Arr(a) : a \in SeqsOf({Num(18), Active, Pending}, 0, MaxArr)}

\* Operator entries: every operator of the SQL form, two keys only the tree
\* form maps or neither maps, combinator keys in operator position.
CompareKeys == {"$eq", "$ne", "$gt", "$gte", "$lt", "$lte"}
NotOperands ==
    {Num(25), John, Arr(<<Num(18)>>), Obj(<<KV("$gt", Num(25))>>),
     Obj(<<KV("$gte", Num(18)), KV("$lt", Num(65))>>),
     Obj(<<KV("$in", Arr(<<Active, Pending>>))>>),
     Obj(<<KV("$in", Active)>>), Obj(<<KV("$or", Active)>>),
     Obj(<<KV("$not", Obj(<<KV("$eq", Num(18))>>))>>)}
OperatorEntries ==
    {KV(k, x) : k \in CompareKeys, x \in Scalars}
    \cup {KV(k, x) : k \in {"$in", "$nin"}, x \in Arrays \cup {Num(18), Active, Null}}
    \cup {KV("$regex", x) : x \in RegexOperands}
    \cup {KV("$not", x) : x \in NotOperands}
    \cup {KV(k, Num(18)) : k \in {"$like", "$exists", "$and", "foo"}}

\* The entries combined in objects of several operators.
CoreOperatorEntries ==
    {KV("$gte", Num(18)), KV("$lt", Num(65)), KV("$ne", Num(25)),
     KV("$in", Arr(<<Active, Pending>>)), KV("$nin", Arr(<<Num(18)>>)),
     KV("$in", Active), KV("$not", Obj(<<KV("$gt", Num(25))>>)),
     KV("$regex", Str(<<"^", "a">>)), KV("$like", Str(<<"a", "%">>)),
     KV("$exists", Num(18)), KV("foo", Num(18)), KV("constructor", Num(18))}

OperatorObjects ==
    {Obj(<<e>>) : e \in OperatorEntries}
    \cup {Obj(es) : es \in {x \in SeqsOf(CoreOperatorEntries, 2, MaxKeys) : DistinctKeys(x)}}

FieldValues ==
    Scalars \cup PatternStrings \cup Arrays \cup OperatorObjects
    \cup {Obj(<<>>), Obj(<<KV("foo", Num(18))>>), DateOf(1), RegExpOf(<<"a">>),
          Arr(<<Obj(<<KV("$gt", Num(18))>>)>>)}

FieldDocs == {Doc1("age", x) : x \in FieldValues}

\* The sub-filters combined under one combinator.
LeafDocs ==
    {Obj(<<>>), Doc1("status", Active), Doc1("status", Pending),
     Doc1("age", Obj(<<KV("$gte", Num(18))>>)),
     Doc1("age", Obj(<<KV("$gte", Num(18)), KV("$lt", Num(65))>>)),
     Doc1("name", John),
     Doc1("status", Obj(<<KV("$in", Arr(<<Active, Pending>>))>>)),
     Doc1("age", Obj(<<KV("$in", Num(18))>>)),
     Null}

Combinators == {"$and", "$or", "$nor"}

\* A combinator over every list of sub-filters from S, or over a non-array.
CombinatorDocs(S) ==
    {Doc1(c, Arr(l)) : c \in Combinators, l \in SeqsOf(S, 0, MaxSub)}
    \cup {Doc1(c, x) : c \in Combinators, x \in {Active, Null}}

\* The nested sub-filters, and the siblings put next to a nested one.
SmallLeafDocs == {Obj(<<>>), Doc1("status", Active), Doc1("status", Pending)}
Siblings == {Doc1("age", Obj(<<KV("$gte", Num(18))>>))}

\* A combinator over one nested document from S, alone or beside a sibling.
NestingDocs(S) ==
    {Doc1(c, Arr(l)) : c \in Combinators,
                       l \in {<<x>> : x \in S}
                             \cup {<<a, x>> : a \in Siblings, x \in S}
                             \cup {<<x, a>> : a \in Siblings, x \in S}}

\* Combinators nested d deep, each but the innermost over a single sub-filter.
RECURSIVE ChainDocs(_)
ChainDocs(d) ==
    IF d = 1 THEN CombinatorDocs(SmallLeafDocs)
    ELSE {Doc1(c, Arr(<<x>>)) : c \in Combinators, x \in ChainDocs(d - 1)}

\* The documents whose combinators nest exactly d deep (d > 1).
NestedDocs(d) == NestingDocs(ChainDocs(d - 1))

DeepDocs == UNION {NestedDocs(d) : d \in 2..MaxDepth}

\* Documents of several top-level keys.
TopEntries ==
    {KV("age", Num(25)), KV("name", John), KV("status", Active),
     KV("age", Obj(<<KV("$gte", Num(18)), KV("$lt", Num(65))>>)),
     KV("status", Obj(<<KV("$in", Arr(<<Active, Pending>>))>>)),
     KV("age", Obj(<<KV("$in", Num(18))>>)),
     KV("$or", Arr(<<Doc1("status", Active), Doc1("status", Pending)>>)),
     KV("$and", Arr(<<>>)), KV("$and", Arr(<<Doc1("name", John)>>)),
     KV("$nor", Arr(<<Doc1("status", Pending), Obj(<<>>)>>)),
     KV("$or", Active)}

MultiKeyDocs ==
    {Obj(es) : es \in {x \in SeqsOf(TopEntries, 2, MaxKeys) : DistinctKeys(x)}}

Filters ==
    {Obj(<<>>), Null, Num(25), Arr(<<Doc1("age", Num(18))>>)}
    \cup FieldDocs \cup CombinatorDocs(LeafDocs) \cup DeepDocs \cup MultiKeyDocs

(***************************************************************************)
(* The calls.  A translator is called on the caller's filter; the result   *)
(* records whether the call returned or threw.                             *)
(***************************************************************************)
NotCalled == [called |-> FALSE]

Init == /\ filter \in Filters
        /\ sqlResult = NotCalled
        /\ treeResult = NotCalled
        /\ earlier = NotCalled
        /\ walk = NotCalled
        /\ crudder = NotCalled
        /\ req = NotCalled
        /\ res = <<>>

\* function convertMongoFilterToSQL(filter, parameters = []): a call without
\* the second argument evaluates the default anew, whatever the call before
\* (`previous`) left behind.
defaultParameters_evaluatedOnce(previous) ==
    IF previous.called THEN previous.parameters ELSE <<>>

defaultParameters(previous) == <<>>

\* const { whereClause, parameters } = convertMongoFilterToSQL(filter)
CallConvertMongoFilterToSQL ==
    /\ ~sqlResult.called
    /\ LET r == convertMongoFilterToSQL(filter, defaultParameters(sqlResult))
       IN sqlResult' = [called |-> TRUE, err |-> r.err,
                        whereClause |-> r.clause, parameters |-> r.parameters]
    /\ UNCHANGED <<filter, treeResult, earlier, walk, handlerVars>>

\* const where = parseSQLFilter.FilterParse(filter, Op)
CallFilterParse ==
    /\ ~treeResult.called
    /\ LET r == FilterParse(filter)
       IN treeResult' = [called |-> TRUE, err |-> r.err, tree |-> r.tree]
    /\ UNCHANGED <<filter, sqlResult, earlier, walk, handlerVars>>

Next == CallConvertMongoFilterToSQL \/ CallFilterParse

Spec == Init /\ [][Next]_vars

(***************************************************************************)
(* Repeated calls.  A caller translates one document after another with    *)
(* either translator and may keep an output to compare a later one with.   *)
(***************************************************************************)
RepeatFilters ==
    {Obj(<<>>), Null,
     Obj(<<KV("age", Num(25)), KV("name", John)>>),
     Doc1("age", Obj(<<KV("$gte", Num(18)), KV("$lt", Num(65))>>)),
     Doc1("age", Obj(<<KV("$in", Arr(<<Active, Pending>>))>>)),
     Doc1("$and", Arr(<<Doc1("age", Obj(<<KV("$gte", Num(18))>>)),
                        Doc1("$or", Arr(<<Doc1("status", Active),
                                          Doc1("status", Pending)>>))>>)),
     Doc1("$nor", Arr(<<Doc1("status", Active), Null>>)),
     Doc1("age", Obj(<<KV("$in", Num(18))>>)),
     Doc1("age", Arr(<<Num(18)>>)),
     Doc1("$or", Active)}

RepeatInit ==
    /\ filter \in RepeatFilters
    /\ sqlResult = NotCalled
    /\ treeResult = NotCalled
    /\ earlier = NotCalled
    /\ walk = NotCalled
    /\ crudder = NotCalled
    /\ req = NotCalled
    /\ res = <<>>

\* The values that are objects, which a holder of a reference can change.
IsObject(x) == x.t \in {"arr", "obj", "regexp", "date"}

\* parameters.push(value): the parameters that are objects are the document's
\* own (the strings the pattern compilers build are new primitives).
carriedByParameters(parameters) ==
    {parameters[i] : i \in {j \in 1..Len(parameters) : IsObject(parameters[j])}}

\* { [seqOp]: value }: the wrapper is new, the operand is the document's own;
\* under [Op.not] stands the wrapper convertValue made of the operand of $not.
RECURSIVE carriedByWrapper(_)
carriedByWrapper(wrapper) ==
    UNION {IF wrapper.v[i].k = Op.not THEN carriedByWrapper(wrapper.v[i].v)
           ELSE IF IsObject(wrapper.v[i].v) THEN {wrapper.v[i].v}
           ELSE {} : i \in 1..Len(wrapper.v)}

\* The objects of the document that the value FilterParse returned refers to:
\* a value that is no document is returned itself; `result`, the mapped arrays
\* and the wrappers are new; the operands are stored as they are.
RECURSIVE carriedByTree(_)
carriedByTree(tree) ==
    IF tree.t # "obj" THEN (IF IsObject(tree) THEN {tree} ELSE {})
    ELSE UNION {IF tree.v[i].k \in {Op.and, Op.or}
                THEN UNION {carriedByTree(tree.v[i].v.v[j]) :
                                j \in 1..Len(tree.v[i].v.v)}
                ELSE IF tree.v[i].k = Op.not
                THEN carriedByTree(tree.v[i].v)
                ELSE carriedByWrapper(tree.v[i].v) : i \in 1..Len(tree.v)}

\* The objects of the document passed that an output refers to.
carriedBy(form, output) ==
    IF output.err # "" THEN {}
    ELSE IF form = "sql" THEN carriedByParameters(output.parameters)
    ELSE carriedByTree(output.tree)

\* What the caller holds of an earlier call: its output, whether another
\* translation came after it, whether the same translator was called on the
\* same document again, whether every call since was passed the very document
\* object of the kept call, and whether the output of such a call refers to
\* an object the kept output refers to as well.
Kept(form, output) ==
    [called |-> TRUE, form |-> form, output |-> output,
     between |-> FALSE, again |-> FALSE, passedOn |-> TRUE, aliased |-> FALSE]

After(form, output, same) ==
    IF ~earlier.called THEN earlier
    ELSE [earlier EXCEPT
            !.again = @ \/ (earlier.form = form /\ earlier.output.of = output.of),
            !.between = @ \/ ~(earlier.form = form /\ earlier.output.of = output.of),
            !.passedOn = @ /\ same,
            !.aliased = @ \/ (/\ earlier.passedOn /\ same
                              /\ carriedBy(earlier.form, earlier.output)
                                     \cap carriedBy(form, output) # {})]

\* convertMongoFilterToSQL(f), the output kept or not; `same` when the caller
\* passes the document object of the call before, not a new one.
ConvertAgain(f, keep, same) ==
    /\ same => f = filter
    /\ filter' = f
    /\ LET r == convertMongoFilterToSQL(f, defaultParameters(sqlResult))
       IN sqlResult' = [called |-> TRUE, of |-> f, err |-> r.err,
                        whereClause |-> r.clause, parameters |-> r.parameters]
    /\ earlier' = IF keep THEN Kept("sql", sqlResult')
                  ELSE After("sql", sqlResult', same)
    /\ UNCHANGED <<treeResult, walk, handlerVars>>

\* parseSQLFilter.FilterParse(f, Op), the output kept or not
ParseAgain(f, keep, same) ==
    /\ same => f = filter
    /\ filter' = f
    /\ LET r == FilterParse(f)
       IN treeResult' = [called |-> TRUE, of |-> f, err |-> r.err, tree |-> r.tree]
    /\ earlier' = IF keep THEN Kept("tree", treeResult')
                  ELSE After("tree", treeResult', same)
    /\ UNCHANGED <<sqlResult, walk, handlerVars>>

RepeatNext ==
    \E f \in RepeatFilters, keep \in BOOLEAN, same \in BOOLEAN :
        ConvertAgain(f, keep, same) \/ ParseAgain(f, keep, same)

SpecRepeated == RepeatInit /\ [][RepeatNext]_vars

(***************************************************************************)
(* The translators step by step.  One call is followed through its loops:  *)
(* `walk` holds the work still to do as a stack of items (a document to    *)
(* translate, a key of a document loop, a field value, an operator of an   *)
(* operator object, the assignment that ends a key), the keys visited so   *)
(* far, each named by its path of positions from the document's top, and   *)
(* the outcome.  A throw unwinds the whole stack.                          *)
(***************************************************************************)
Item(kind, k, v, at, into) ==
    [kind |-> kind, k |-> k, v |-> v, at |-> at, into |-> into]

\* The object a loop collects into: one the call made, or the document
\* (sub-document) at a path.
Own == [own |-> TRUE, at |-> <<>>]
InPlace(at) == [own |-> FALSE, at |-> at]

\* The key loop collecting into the document it reads.
accumulator_inPlace(form, at) == InPlace(at)

\* const conditions = [] with parameters = [] (SQL form); const result = {}
\* (tree form): the key loop of the document at `at` collects into new objects.
accumulator(form, at) == Own

\* doc[key] = x for the sub-document of doc at a path of (key, sub-filter)
\* positions.
RECURSIVE WriteAt(_, _, _, _)
WriteAt(doc, at, key, x) ==
    IF at = <<>>
    THEN (IF doc.t = "obj" THEN Obj(Put(doc.v, key, x)) ELSE Arr(Append(doc.v, x)))
    ELSE Obj([doc.v EXCEPT ![at[1]] =
                KV(@.k, Arr([@.v.v EXCEPT ![at[2]] =
                                WriteAt(@, Tail(Tail(at)), key, x)]))])

\* What a finished key stores: the condition pushed or the subtree assigned.
Stored(form, item) ==
    IF form = "sql" THEN Str(<<"c", "o", "n", "d">>)
    ELSE IF item.k \in {"$and", "$or", "$nor"} THEN mapFilterParse(item.v.v).tree
    ELSE convertValue(item.v).tree

\* Does the translator enter its key loop on this value?
EntersKeyLoop(form, d) ==
    IF form = "sql" THEN d.t \in {"obj", "arr", "regexp", "date"} /\ Len(Entries(d)) > 0
    ELSE d.t \in {"obj", "regexp", "date"}

\* keys[0].charAt(0) === '$' on an object that has keys
IsOperatorObjectValue(value) ==
    /\ value.t \in {"obj", "regexp"}
    /\ Len(Entries(value)) > 0
    /\ StartsWithSigil(Entries(value)[1].k)

\* The key items of a document, in key order.
keyItems(form, d, at) ==
    [i \in 1..Len(Entries(d)) |->
        Item("key", Entries(d)[i].k, Entries(d)[i].v, at \o <<i>>,
             accumulator(form, at))]

\* The sub-filters of a combinator, in order.
subFilterItems(subs, at) ==
    [j \in 1..Len(subs) |-> Item("doc", "", subs[j], at \o <<j>>, Own)]

\* The operator items of an operator object taking each operator twice.
operatorItems_twice(value, at) ==
    [i \in 1..(2 * Len(Entries(value))) |->
        Item("operator", Entries(value)[(i + 1) \div 2].k,
             Entries(value)[(i + 1) \div 2].v, at \o <<(i + 1) \div 2>>, Own)]

\* The operators of an operator object, in key order.
operatorItems(value, at) ==
    [i \in 1..Len(Entries(value)) |->
        Item("operator", Entries(value)[i].k, Entries(value)[i].v, at \o <<i>>, Own)]

\* Does an operator other than $not throw?
operatorThrows(form, operator, value) ==
    IF form = "sql" THEN processOperator("f", operator, value, <<>>).err # ""
    ELSE ~InOperatorMap(operator)

WalkInit ==
    /\ filter \in Filters
    /\ sqlResult = NotCalled
    /\ treeResult = NotCalled
    /\ earlier = NotCalled
    /\ walk = NotCalled
    /\ crudder = NotCalled
    /\ req = NotCalled
    /\ res = <<>>

\* The call: the document is the first item.
Begin(form) ==
    /\ ~walk.called
    /\ walk' = [called |-> TRUE, form |-> form, of |-> filter,
                stack |-> <<Item("doc", "", filter, <<>>, Own)>>,
                visited |-> <<>>, outcome |-> ""]
    /\ UNCHANGED <<filter, sqlResult, treeResult, earlier, handlerVars>>

Walking(kind) ==
    /\ walk.called
    /\ walk.outcome = ""
    /\ walk.stack # <<>>
    /\ Head(walk.stack).kind = kind

\* The walk goes on with `items` in place of the item on top; the call
\* returns when nothing is left.
GoOn(items, visited) ==
    walk' = [walk EXCEPT !.stack = items \o Tail(walk.stack),
                         !.visited = visited,
                         !.outcome = IF items \o Tail(walk.stack) = <<>>
                                     THEN "returned" ELSE ""]

\* throw new Error(...)
Unwind(visited) ==
    walk' = [walk EXCEPT !.stack = <<>>, !.visited = visited, !.outcome = "threw"]

\* convertMongoFilterToSQL(d) / FilterParse(d): the early returns or the loop
EnterDocument ==
    /\ Walking("doc")
    /\ LET top == Head(walk.stack)
       IN IF EntersKeyLoop(walk.form, top.v)
          THEN GoOn(keyItems(walk.form, top.v, top.at), walk.visited)
          ELSE GoOn(<<>>, walk.visited)
    /\ UNCHANGED <<filter, sqlResult, treeResult, earlier, handlerVars>>

\* One turn of the key loop: a combinator maps its sub-filters, a field goes
\* to processFieldValue / convertValue; the assignment follows.
VisitKey ==
    /\ Walking("key")
    /\ LET top == Head(walk.stack)
           visited == Append(walk.visited, top.at)
           assign == Item("assign", top.k, top.v, top.at, top.into)
       IN IF top.k \in {"$and", "$or", "$nor"}
          THEN IF ~IsArray(top.v) THEN Unwind(visited)
               ELSE GoOn(subFilterItems(top.v.v, top.at) \o <<assign>>, visited)
          ELSE GoOn(<<Item("value", top.k, top.v, top.at, Own), assign>>, visited)
    /\ UNCHANGED <<filter, sqlResult, treeResult, earlier, handlerVars>>

\* processFieldValue / convertValue: an operator object maps its operators,
\* any other value is a leaf.
VisitValue ==
    /\ Walking("value")
    /\ LET top == Head(walk.stack)
       IN IF IsOperatorObjectValue(top.v)
          THEN GoOn(operatorItems(top.v, top.at), walk.visited)
          ELSE GoOn(<<>>, walk.visited)
    /\ UNCHANGED <<filter, sqlResult, treeResult, earlier, handlerVars>>

\* processOperator / convertOperator: $not goes back to the value level.
VisitOperator ==
    /\ Walking("operator")
    /\ LET top == Head(walk.stack)
           visited == Append(walk.visited, top.at)
       IN IF top.k = "$not" /\ (walk.form = "sql" \/ InOperatorMap("$not"))
          THEN GoOn(<<Item("value", top.k, top.v, top.at, Own)>>, visited)
          ELSE IF operatorThrows(walk.form, top.k, top.v) THEN Unwind(visited)
          ELSE GoOn(<<>>, visited)
    /\ UNCHANGED <<filter, sqlResult, treeResult, earlier, handlerVars>>

\* conditions.push(...) / result[key] = ...: the write that ends a key
AssignKey ==
    /\ Walking("assign")
    /\ LET top == Head(walk.stack)
       IN /\ GoOn(<<>>, walk.visited)
          /\ filter' = IF top.into.own THEN filter
                       ELSE WriteAt(filter, top.into.at, top.k, Stored(walk.form, top))
    /\ UNCHANGED <<sqlResult, treeResult, earlier, handlerVars>>

WalkNext ==
    \/ \E form \in {"sql", "tree"} : Begin(form)
    \/ EnterDocument
    \/ VisitKey
    \/ VisitValue
    \/ VisitOperator
    \/ AssignKey

\* A call, once made, runs to its end: nothing suspends it.
SpecWalk == WalkInit /\ [][WalkNext]_vars /\ WF_vars(WalkNext)

(***************************************************************************)
(* lib/sequelize.crud.js: the request handlers of SequelizeCrudder.        *)
(* `req` holds the params that parseParams extracts from the request,      *)
(* `crudder` the options of the crudder, what the database answers and the *)
(* queries the model received, `res` the responses sent.                   *)
(***************************************************************************)
Undefined == [t |-> "undef", v |-> 0]
Bool(b) == [t |-> "bool", v |-> b]

\* An error message (a string of the program, not of a filter document).
Message(m) == [t |-> "text", v |-> m]

\* JavaScript truthiness
Truthy(x) ==
    CASE x.t \in {"undef", "null"} -> FALSE
      [] x.t = "bool" -> x.v
      [] x.t = "num" -> x.v # 0
      [] x.t = "str" -> x.v # <<>>
      [] OTHER -> TRUE

\* a || b
OrElse(a, b) == IF Truthy(a) THEN a ELSE b

\* res.status(code).json(data)
Respond(code, data) == [statusCode |-> code, data |-> data]

\* catch (err) { res.status(500).json({ message: err.message }) }
Respond500(message) == Respond(500, Obj(<<KV("message", Message(message))>>))

\* One query received by the model.
Query(method, options) == [method |-> method, options |-> options]

\* What a handler did: the queries it made and the responses it sent.
Handled(calls, sent) == [calls |-> calls, sent |-> sent]

\* The rows the where clause of the request matches, as the model returns them.
Row(i) == Obj(<<KV("id", Num(i))>>)
Rows(model) == [i \in 1..model.matching |-> Row(i)]

\* The database's answer to findAll with OFFSET and LIMIT.
Page(rows, offset, limit) ==
    IF limit.t = "undef" THEN rows
    ELSE SubSeq(rows, offset.v + 1,
                IF offset.v + limit.v < Len(rows) THEN offset.v + limit.v ELSE Len(rows))

\* Object.entries(params.sort).map(([field, dir]) => [field, direction])
orderOf(sort) ==
    Arr([i \in 1..Len(sort.v) |->
            Arr(<<Str(sort.v[i].k),
                  IF sort.v[i].v \in {Num(1), Str(<<"a", "s", "c">>), Str(<<"A", "S", "C">>)}
                  THEN Str(<<"A", "S", "C">>)
                  ELSE Str(<<"D", "E", "S", "C">>)>>)])

\* effectiveLimit falling back to defaultLimit whenever it is set.
effectiveLimit_defaultFirst(params, options) ==
    IF Truthy(options.defaultLimit) THEN options.defaultLimit ELSE OrElse(params.limit, Num(-1))

\* let limit = params.limit;
\* if (limit === undefined || limit === null) { limit = this.options.defaultLimit || -1 }
effectiveLimit(params, options) ==
    IF params.limit.t \in {"undef", "null"}
    THEN OrElse(options.defaultLimit, Num(-1))
    ELSE params.limit

\* The options find hands to model.findAll.
findOptions(where, params, options) ==
    LET limit == effectiveLimit(params, options)
        paged == Truthy(limit) /\ limit # Num(-1)
    IN [where |-> where,
        attributes |-> IF Truthy(params.select) /\ Len(params.select.v) > 0
                       THEN params.select ELSE Undefined,
        order |-> IF Truthy(params.sort) THEN orderOf(params.sort) ELSE Undefined,
        offset |-> IF paged THEN OrElse(params.skip, Num(0)) ELSE Undefined,
        limit |-> IF paged THEN limit ELSE Undefined]

\* Math.floor((params.skip || 0) / (params.limit || 1)) + 1
pageOf(params) ==
    LET skip == OrElse(params.skip, Num(0)).v
        per == OrElse(params.limit, Num(1)).v
    IN Num((IF per < 0 THEN (0 - skip) \div (0 - per) ELSE skip \div per) + 1)

\* find after the filter was parsed and the options were built.
findWith(findAllOptions, params, model) ==
    LET docs == Page(Rows(model), findAllOptions.offset, findAllOptions.limit)
        findAll == Query("findAll", findAllOptions)
    IN IF model.down THEN Handled(<<findAll>>, <<Respond500("database error")>>)
       ELSE IF ~Truthy(params.metadata)
       THEN Handled(<<findAll>>, <<Respond(200, Arr(docs))>>)
       ELSE Handled(<<findAll, Query("count", Undefined),
                      Query("count", [where |-> findAllOptions.where])>>,
                    <<Respond(200,
                        Obj(<<KV("_metadata",
                                 Obj(<<KV("page", pageOf(params)),
                                       KV("count", params.limit),
                                       KV("matched", Num(model.matching)),
                                       KV("totalCount",
                                          Num(model.matching + model.unmatched))>>)),
                              KV("data", Arr(docs))>>))>>)

\* The handler once parseSQLFilter.FilterParse(params.filter, Op) has returned
\* or thrown.
findParsed(parsed, params, options, model) ==
    IF parsed.err # "" THEN Handled(<<>>, <<Respond500(parsed.err)>>)
    ELSE findWith(findOptions(parsed.tree, params, options), params, model)

\* SequelizeCrudder.prototype.find
find(params, options, model) ==
    findParsed(FilterParse(params.filter), params, options, model)

\* results.filter(result => result.status === 200).map(result => result.data)
RECURSIVE successDataOf(_)
successDataOf(results) ==
    IF results = <<>> THEN <<>>
    ELSE (IF Head(results).status = 200 THEN <<Head(results).data>> ELSE <<>>)
         \o successDataOf(Tail(results))

\* results.filter(result => result.status !== 200).map(result => result.error)
RECURSIVE errorDataOf(_)
errorDataOf(results) ==
    IF results = <<>> THEN <<>>
    ELSE (IF Head(results).status # 200 THEN <<Head(results).error>> ELSE <<>>)
         \o errorDataOf(Tail(results))

\* arr[0]
First(arr) == IF arr = <<>> THEN Undefined ELSE Head(arr)

\* The outcome of one write: { status: 200, data } or { status: 400, error }.
Written(doc) == [status |-> 200, data |-> doc]
Rejected(i) == [status |-> 400, error |-> Message("write rejected")]

\* for (const curr of documents) { try { ... await curr.update(data) ... } catch ... }
updateEach(documents, model) ==
    [i \in 1..Len(documents) |->
        IF i \in model.rejects THEN Rejected(i) ELSE Written(documents[i])]

\* if (documents.length === 0 && upsert) { ... await this.model.create(data) ... }
upsertOf(documents, params, model) ==
    IF documents = <<>> /\ Truthy(params.upsert)
    THEN (IF 1 \in model.rejects THEN <<Rejected(1)>> ELSE <<Written(params.data)>>)
    ELSE <<>>

\* lib/sequelize.crud.js, updateByFilter:
\* res.status(...).json(Array.isArray(data) ? successData : successData[0])
lib_respondResults(results, data) ==
    LET errorCount == Len(errorDataOf(results))
        successCount == Len(successDataOf(results))
    IN IF errorCount = successCount
       THEN Respond(400, IF IsArray(data) THEN Arr(errorDataOf(results))
                         ELSE First(errorDataOf(results)))
       ELSE IF errorCount > 0
       THEN Respond(207, IF IsArray(data) THEN Arr(successDataOf(results))
                         ELSE First(successDataOf(results)))
       ELSE Respond(200, IF IsArray(data) THEN Arr(successDataOf(results))
                         ELSE First(successDataOf(results)))

\* if (errorCount === successCount) { res.status(400).json(errorData) }
\* else if (errorCount > 0 && errorCount !== successCount) { res.status(207).json(successData) }
\* else { res.status(200).json(successData) }
respondResults(results, data) ==
    LET errorCount == Len(errorDataOf(results))
        successCount == Len(successDataOf(results))
    IN IF errorCount = successCount THEN Respond(400, Arr(errorDataOf(results)))
       ELSE IF errorCount > 0 THEN Respond(207, Arr(successDataOf(results)))
       ELSE Respond(200, Arr(successDataOf(results)))

\* updateByFilter once the filter was parsed.
updateByFilterParsed(parsed, params, model) ==
    IF parsed.err # "" THEN Handled(<<>>, <<Respond500(parsed.err)>>)
    ELSE IF model.down
    THEN Handled(<<Query("findAll", [where |-> parsed.tree])>>,
                 <<Respond500("database error")>>)
    ELSE Handled(<<Query("findAll", [where |-> parsed.tree])>>,
                 <<respondResults(updateEach(Rows(model), model)
                                  \o upsertOf(Rows(model), params, model),
                                  params.data)>>)

\* SequelizeCrudder.prototype.updateByFilter
updateByFilter(params, model) ==
    updateByFilterParsed(FilterParse(params.filter), params, model)

\* lib/sequelize.crud.js, updateByFilter: the reduce over the documents.
\* _.mergeWith(oldLeanDocument, data, ...) returns oldLeanDocument itself, so
\* _.isEqual finds the two equal and every document is pushed as it was found.
lib_updateEach(documents) == [i \in 1..Len(documents) |-> Written(documents[i])]

\* lib/sequelize.crud.js, updateByFilter once the filter was parsed.
lib_updateByFilterParsed(parsed, params, model) ==
    IF parsed.err # "" THEN Handled(<<>>, <<Respond500(parsed.err)>>)
    ELSE IF model.down
    THEN Handled(<<Query("find", parsed.tree)>>, <<Respond500("database error")>>)
    ELSE Handled(<<Query("find", parsed.tree)>>,
                 <<lib_respondResults(lib_updateEach(Rows(model)), params.data)>>)

\* lib/sequelize.crud.js: SequelizeCrudder.prototype.updateByFilter
lib_updateByFilter(params, model) ==
    lib_updateByFilterParsed(FilterParse(params.filter), params, model)

\* res.status(404).json({ message: 'Document not found' })
NotFound == Respond(404, Obj(<<KV("message", Message("Document not found"))>>))

\* SequelizeCrudder.prototype.count once the filter was parsed
countParsed(parsed, model) ==
    IF parsed.err # "" THEN Handled(<<>>, <<Respond500(parsed.err)>>)
    ELSE IF model.down
    THEN Handled(<<Query("count", [where |-> parsed.tree])>>,
                 <<Respond500("database error")>>)
    ELSE Handled(<<Query("count", [where |-> parsed.tree])>>,
                 <<Respond(200, Num(model.matching))>>)

\* SequelizeCrudder.prototype.count
count(params, model) == countParsed(FilterParse(params.filter), model)

\* The row findOne / findByPk returns: the first the where clause matches.
documentOf(model) == IF model.matching > 0 THEN Row(1) ELSE Null

\* SequelizeCrudder.prototype.findById (idField is 'id': findByPk)
findById(params, model) ==
    LET findByPk == Query("findByPk",
                          [id |-> params.id,
                           attributes |-> IF Truthy(params.select)
                                             /\ Len(params.select.v) > 0
                                          THEN params.select ELSE Undefined])
    IN IF model.down THEN Handled(<<findByPk>>, <<Respond500("database error")>>)
       ELSE IF ~Truthy(documentOf(model)) THEN Handled(<<findByPk>>, <<NotFound>>)
       ELSE Handled(<<findByPk>>, <<Respond(200, documentOf(model))>>)

\* Array.isArray(data) ? data : [data]
documentsOf(data) == IF IsArray(data) THEN data.v ELSE <<data>>

\* upsert && curr[this.options.idField]
HasId(curr, idField) ==
    /\ curr.t = "obj"
    /\ \E i \in 1..Len(curr.v) : curr.v[i].k = idField /\ Truthy(curr.v[i].v)

\* The model calls of create, one document after another.
createCalls(documents, upsert) ==
    [i \in 1..Len(documents) |->
        IF Truthy(upsert) /\ HasId(documents[i], "id")
        THEN Query("upsert", documents[i])
        ELSE Query("create", documents[i])]

\* for (const curr of documents) { try { ... results.push({ status: 200, ... }) }
\*                                 catch (err) { results.push({ status: 400, ... }) } }
createEach(documents, model) ==
    [i \in 1..Len(documents) |->
        IF i \in model.rejects THEN Rejected(i) ELSE Written(documents[i])]

\* SequelizeCrudder.prototype.create
create(params, model) ==
    Handled(createCalls(documentsOf(params.data), params.upsert),
            <<lib_respondResults(createEach(documentsOf(params.data), model),
                                 params.data)>>)

\* lib/sequelize.crud.js, create: the lookups of the documents that carry an
\* id under upsert are made outside the try of the save.
lib_createLooksUp(documents, upsert) ==
    \E i \in 1..Len(documents) : Truthy(upsert) /\ HasId(documents[i], "_id")

\* lib/sequelize.crud.js: SequelizeCrudder.prototype.create
lib_create(params, model) ==
    IF lib_createLooksUp(documentsOf(params.data), params.upsert) /\ model.down
    THEN Handled(<<Query("findOne", params.data)>>, <<Respond500("database error")>>)
    ELSE Handled([i \in 1..Len(documentsOf(params.data)) |->
                     Query("save", documentsOf(params.data)[i])],
                 <<lib_respondResults(createEach(documentsOf(params.data), model),
                                      params.data)>>)

\* _.mergeWith({}, oldData, data, this._customizer) on flat rows
mergeWith(oldData, data) ==
    IF data.t = "obj" THEN Obj(Assign(oldData.v, data.v)) ELSE oldData

\* updateById on the document found: answered as it is when the merged data
\* equal the stored data, updated and answered otherwise.
updateFound(document, params, model) ==
    IF mergeWith(document, params.data) = document
    THEN Handled(<<Query("findOne", params.id)>>, <<Respond(200, document)>>)
    ELSE IF 1 \in model.rejects
    THEN Handled(<<Query("findOne", params.id), Query("update", params.data)>>,
                 <<Respond500("write rejected")>>)
    ELSE Handled(<<Query("findOne", params.id), Query("update", params.data)>>,
                 <<Respond(200, mergeWith(document, params.data))>>)

\* data[this.options.idField] = id; await this.model.create(data)
createMissing(params, model) ==
    LET newData == Obj(Put(params.data.v, "id", params.id))
    IN IF 1 \in model.rejects
       THEN Handled(<<Query("findOne", params.id), Query("create", newData)>>,
                    <<Respond500("write rejected")>>)
       ELSE Handled(<<Query("findOne", params.id), Query("create", newData)>>,
                    <<Respond(200, newData)>>)

\* SequelizeCrudder.prototype.updateById
updateById(params, model) ==
    IF model.down
    THEN Handled(<<Query("findOne", params.id)>>, <<Respond500("database error")>>)
    ELSE IF ~Truthy(documentOf(model)) /\ ~Truthy(params.upsert)
    THEN Handled(<<Query("findOne", params.id)>>, <<NotFound>>)
    ELSE IF Truthy(documentOf(model))
    THEN updateFound(documentOf(model), params, model)
    ELSE createMissing(params, model)

\* lib/sequelize.crud.js, updateById on the document found:
\* _.mergeWith(oldLeanDocument, data, ...) returns oldLeanDocument itself, so
\* _.isEqual finds the two equal and the handler leaves by `return document`.
lib_updateFound(document, params, model) ==
    Handled(<<Query("findOne", params.id)>>, <<>>)

\* lib/sequelize.crud.js: SequelizeCrudder.prototype.updateById
lib_updateById(params, model) ==
    IF model.down
    THEN Handled(<<Query("findOne", params.id)>>, <<Respond500("database error")>>)
    ELSE IF ~Truthy(documentOf(model)) /\ ~Truthy(params.upsert)
    THEN Handled(<<Query("findOne", params.id)>>, <<NotFound>>)
    ELSE IF Truthy(documentOf(model))
    THEN lib_updateFound(documentOf(model), params, model)
    ELSE IF 1 \in model.rejects
    THEN Handled(<<Query("findOne", params.id), Query("save", params.data)>>,
                 <<Respond500("write rejected")>>)
    ELSE Handled(<<Query("findOne", params.id), Query("save", params.data)>>,
                 <<Respond(200, params.data)>>)

\* The rows among those the model holds whose id is one of ids.
RECURSIVE RowsIn(_, _)
RowsIn(rows, ids) ==
    IF rows = <<>> THEN <<>>
    ELSE (IF IsArray(ids) /\ \E j \in 1..Len(ids.v) : ids.v[j] = Head(rows).v[1].v
          THEN <<Head(rows)>> ELSE <<>>) \o RowsIn(Tail(rows), ids)

\* where: { [idField]: { [Op.in]: ids } }
whereIds(ids) == [where |-> Doc1("id", Doc1(Op.in, ids))]

\* SequelizeCrudder.prototype.bulkShowByIds
bulkShowByIds(params, model) ==
    LET options == [where |-> whereIds(params.ids).where,
                    attributes |-> IF Truthy(params.select) /\ Len(params.select.v) > 0
                                   THEN params.select ELSE Undefined,
                    order |-> IF Truthy(params.sort) THEN orderOf(params.sort)
                              ELSE Undefined]
    IN IF model.down
       THEN Handled(<<Query("findAll", options)>>, <<Respond500("database error")>>)
       ELSE Handled(<<Query("findAll", options)>>,
                    <<Respond(200, Arr(RowsIn(Rows(model), params.ids)))>>)

\* ids.filter(id => !existingIds.includes(id))
RECURSIVE missingIds(_, _)
missingIds(ids, documents) ==
    IF ids = <<>> THEN <<>>
    ELSE (IF \E i \in 1..Len(documents) : documents[i].v[1].v = Head(ids)
          THEN <<>> ELSE <<Head(ids)>>) \o missingIds(Tail(ids), documents)

\* if (documents.length < ids.length && upsert) { for (const id of missingIds) ... }
\* The writes follow those of the documents found.
upsertMissing(documents, params, model) ==
    IF Len(documents) < Len(params.ids.v) /\ Truthy(params.upsert)
    THEN [j \in 1..Len(missingIds(params.ids.v, documents)) |->
             IF (Len(documents) + j) \in model.rejects
             THEN Rejected(Len(documents) + j)
             ELSE Written(Obj(Put(params.data.v, "id",
                                  missingIds(params.ids.v, documents)[j])))]
    ELSE <<>>

\* SequelizeCrudder.prototype.bulkUpdateByIds
bulkUpdateByIds(params, model) ==
    IF model.down
    THEN Handled(<<Query("findAll", whereIds(params.ids))>>,
                 <<Respond500("database error")>>)
    ELSE Handled(<<Query("findAll", whereIds(params.ids))>>,
                 <<respondResults(
                      updateEach(RowsIn(Rows(model), params.ids), model)
                      \o upsertMissing(RowsIn(Rows(model), params.ids), params, model),
                      params.data)>>)

\* this.options.permanentDeleteField = '_metadata.deleted'
permanentDeleteField == "_metadata.deleted"

\* A delete that destroys whatever the options say.
deleteCall_destroying(curr, options) == Query("destroy", curr)

\* if (this.options.permanentDelete) { await curr.destroy() }
\* else { await curr.update({ [deleteField]: true }) }
deleteCall(curr, options) ==
    IF Truthy(options.permanentDelete) THEN Query("destroy", curr)
    ELSE Query("update", [document |-> curr,
                          values |-> Doc1(permanentDeleteField, Bool(TRUE))])

\* lib/sequelize.crud.js:
\* if (this.options.permanentDelete) { await curr.deleteOne() }
\* else { curr.set(this.options.permanentDeleteField, true); await curr.save() }
lib_deleteCall(curr, options) ==
    IF Truthy(options.permanentDelete) THEN Query("deleteOne", curr)
    ELSE Query("save", [document |-> curr,
                        values |-> Doc1(permanentDeleteField, Bool(TRUE))])

\* for (const curr of documents) { ... }: the writes, one document after
\* another, up to and including the first the database rejects.
writesUpTo(writes, model) ==
    IF \E i \in 1..Len(writes) : i \in model.rejects
    THEN SubSeq(writes, 1, CHOOSE i \in 1..Len(writes) :
                              /\ i \in model.rejects
                              /\ \A j \in 1..(i - 1) : j \notin model.rejects)
    ELSE writes

\* The delete handlers once the documents were found: the writes, then
\* res.status(200).json(body), or the catch when a write is rejected.
deleteFound(found, writes, model, body) ==
    Handled(<<found>> \o writesUpTo(writes, model),
            <<IF \E i \in 1..Len(writes) : i \in model.rejects
              THEN Respond500("write rejected")
              ELSE Respond(200, body)>>)

\* { message: 'Documents deleted', count: documents.length }
DocumentsDeleted(documents) ==
    Obj(<<KV("message", Message("Documents deleted")), KV("count", Num(Len(documents)))>>)

\* SequelizeCrudder.prototype.deleteById; document is what findOne resolves to.
deleteById(params, options, model, document) ==
    LET findOne == Query("findOne", [where |-> Doc1("id", params.id)])
    IN IF model.down THEN Handled(<<findOne>>, <<Respond500("database error")>>)
       ELSE IF ~Truthy(document) THEN Handled(<<findOne>>, <<NotFound>>)
       ELSE deleteFound(findOne, <<deleteCall(document, options)>>, model,
                        Obj(<<KV("message", Message("Document deleted"))>>))

\* deleteByFilter once the filter was parsed.
deleteByFilterParsed(parsed, options, model, documents) ==
    IF parsed.err # "" THEN Handled(<<>>, <<Respond500(parsed.err)>>)
    ELSE IF model.down
    THEN Handled(<<Query("findAll", [where |-> parsed.tree])>>,
                 <<Respond500("database error")>>)
    ELSE deleteFound(Query("findAll", [where |-> parsed.tree]),
                     [i \in 1..Len(documents) |-> deleteCall(documents[i], options)],
                     model, DocumentsDeleted(documents))

\* SequelizeCrudder.prototype.deleteByFilter; documents is what findAll
\* resolves to.
deleteByFilter(params, options, model, documents) ==
    deleteByFilterParsed(FilterParse(params.filter), options, model, documents)

\* SequelizeCrudder.prototype.bulkDeleteByIds; documents is what findAll
\* resolves to.
bulkDeleteByIds(params, options, model, documents) ==
    IF model.down
    THEN Handled(<<Query("findAll", whereIds(params.ids))>>,
                 <<Respond500("database error")>>)
    ELSE deleteFound(Query("findAll", whereIds(params.ids)),
                     [i \in 1..Len(documents) |-> deleteCall(documents[i], options)],
                     model, DocumentsDeleted(documents))

\* lib/sequelize.crud.js: SequelizeCrudder.prototype.deleteById
lib_deleteById(params, options, model, document) ==
    LET findOne == Query("findOne", Doc1("_id", params.id))
    IN IF model.down THEN Handled(<<findOne>>, <<Respond500("database error")>>)
       ELSE IF ~Truthy(document) THEN Handled(<<findOne>>, <<NotFound>>)
       ELSE deleteFound(findOne, <<lib_deleteCall(document, options)>>, model,
                        Obj(<<KV("message", Message("Document deleted"))>>))

\* lib/sequelize.crud.js, deleteByFilter once the filter was parsed.
lib_deleteByFilterParsed(parsed, options, model, documents) ==
    IF parsed.err # "" THEN Handled(<<>>, <<Respond500(parsed.err)>>)
    ELSE IF model.down
    THEN Handled(<<Query("find", parsed.tree)>>, <<Respond500("database error")>>)
    ELSE deleteFound(Query("find", parsed.tree),
                     [i \in 1..Len(documents) |-> lib_deleteCall(documents[i], options)],
                     model, DocumentsDeleted(documents))

\* lib/sequelize.crud.js: SequelizeCrudder.prototype.deleteByFilter
lib_deleteByFilter(params, options, model, documents) ==
    lib_deleteByFilterParsed(FilterParse(params.filter), options, model, documents)

(***************************************************************************)
(* The requests.  One request reaches one handler of a crudder made over   *)
(* a model; the handler answers on the request's own response object.      *)
(***************************************************************************)
Limits == {Undefined, Null, Num(-1), Num(0), Num(1), Num(2)}
Skips == {Undefined, Num(1)}
DefaultLimits == {Undefined, Num(0), Num(1)}

\* select and sort of a request: absent, or one field selected and two sorted.
Views ==
    {[select |-> Undefined, sort |-> Undefined],
     [select |-> Arr(<<Str(<<"a", "g", "e">>)>>),
      sort |-> Obj(<<KV("age", Num(1)), KV("name", Num(-1))>>)]}

\* The `data` of a request: one object, or an array of up to MaxDocs objects;
\* Known carries the id of the first row and changes nothing of it.
Senior == Doc1("status", Str(<<"s", "e", "n", "i", "o", "r">>))
Known == Obj(<<KV("id", Num(1)), KV("_id", Num(1))>>)
Datas == {Senior, Known} \cup {Arr(a) : a \in SeqsOf({Senior, Known}, 0, MaxDocs)}

RequestFilters == {Doc1("status", Active), Doc1("$or", Active)}

\* The ids of a bulk request: of rows the model may hold and of one it never
\* holds.
Unknown == Num(9)
IdLists == {Arr(<<>>), Arr(<<Num(1)>>), Arr(<<Num(1), Unknown>>), Arr(<<Unknown>>)}

\* What parseParams extracts for a request that carries no more than a filter.
NoParams ==
    [filter |-> Doc1("status", Active), limit |-> Undefined, skip |-> Undefined,
     select |-> Undefined, sort |-> Undefined, metadata |-> Undefined,
     data |-> Undefined, upsert |-> Undefined, id |-> Undefined, ids |-> Undefined]

\* The requests that list documents, write documents, name one document and
\* name several.
ListParams ==
    {[NoParams EXCEPT !.filter = f, !.limit = l, !.skip = s, !.select = v.select,
                      !.sort = v.sort, !.metadata = m] :
        f \in RequestFilters, l \in Limits, s \in Skips, v \in Views,
        m \in {Undefined, Bool(TRUE)}}
WriteParams ==
    {[NoParams EXCEPT !.filter = f, !.data = d, !.upsert = u] :
        f \in RequestFilters, d \in Datas, u \in {Undefined, Bool(TRUE)}}
IdParams ==
    {[NoParams EXCEPT !.id = Num(1), !.data = d, !.upsert = u, !.select = v.select] :
        d \in {Senior, Doc1("id", Num(1))}, u \in {Undefined, Bool(TRUE)}, v \in Views}
IdsParams ==
    {[NoParams EXCEPT !.ids = ids, !.data = Senior, !.upsert = u,
                      !.select = v.select, !.sort = v.sort] :
        ids \in IdLists, u \in {Undefined, Bool(TRUE)}, v \in Views}

Params == ListParams \cup WriteParams \cup IdParams \cup IdsParams

\* What the database answers: how many rows the where clause matches and how
\* many it does not, whether queries fail, and which writes it rejects.
Models ==
    [matching : 0..MaxDocs, unmatched : 0..1, down : BOOLEAN,
     rejects : SUBSET (1..MaxDocs)]

\* The options a crudder is made with.
Options ==
    {[defaultLimit |-> dl, permanentDelete |-> Undefined] : dl \in DefaultLimits}
    \cup {[defaultLimit |-> Undefined, permanentDelete |-> Bool(TRUE)]}

Crudders ==
    {[called |-> TRUE, options |-> o, model |-> m, calls |-> <<>>] :
        o \in Options, m \in Models}

HandlerInit ==
    /\ filter = Null
    /\ sqlResult = NotCalled
    /\ treeResult = NotCalled
    /\ earlier = NotCalled
    /\ walk = NotCalled
    /\ crudder \in Crudders
    /\ req \in {[called |-> TRUE, handler |-> "", params |-> p] : p \in Params}
    /\ res = <<>>

\* The request reaches a handler: the handler's queries reach the model and
\* its responses the response object.
Handle(handler, handled) ==
    /\ req.handler = ""
    /\ req' = [req EXCEPT !.handler = handler]
    /\ crudder' = [crudder EXCEPT !.calls = handled.calls]
    /\ res' = handled.sent
    /\ UNCHANGED translatorVars

\* await crudder.find(req, res)
Find ==
    /\ req.params \in ListParams
    /\ Handle("find", find(req.params, crudder.options, crudder.model))

\* await crudder.updateByFilter(req, res)
UpdateByFilter ==
    /\ req.params \in WriteParams
    /\ Handle("updateByFilter", updateByFilter(req.params, crudder.model))

\* await crudder.updateByFilter(req, res), the crudder of lib/sequelize.crud.js
LibUpdateByFilter ==
    /\ req.params \in WriteParams
    /\ Handle("lib/updateByFilter", lib_updateByFilter(req.params, crudder.model))

\* await crudder.count(req, res)
Count ==
    /\ req.params \in ListParams
    /\ Handle("count", count(req.params, crudder.model))

\* await crudder.findById(req, res)
FindById ==
    /\ req.params \in IdParams
    /\ Handle("findById", findById(req.params, crudder.model))

\* await crudder.create(req, res)
Create ==
    /\ req.params \in WriteParams
    /\ Handle("create", create(req.params, crudder.model))

\* await crudder.create(req, res), the crudder of lib/sequelize.crud.js
LibCreate ==
    /\ req.params \in WriteParams
    /\ Handle("lib/create", lib_create(req.params, crudder.model))

\* await crudder.updateById(req, res)
UpdateById ==
    /\ req.params \in IdParams
    /\ Handle("updateById", updateById(req.params, crudder.model))

\* await crudder.updateById(req, res), the crudder of lib/sequelize.crud.js
LibUpdateById ==
    /\ req.params \in IdParams
    /\ Handle("lib/updateById", lib_updateById(req.params, crudder.model))

\* await crudder.bulkShowByIds(req, res)
BulkShowByIds ==
    /\ req.params \in IdsParams
    /\ Handle("bulkShowByIds", bulkShowByIds(req.params, crudder.model))

\* await crudder.bulkUpdateByIds(req, res)
BulkUpdateByIds ==
    /\ req.params \in IdsParams
    /\ Handle("bulkUpdateByIds", bulkUpdateByIds(req.params, crudder.model))

\* await crudder.deleteById(req, res)
DeleteById ==
    /\ req.params \in IdParams
    /\ Handle("deleteById", deleteById(req.params, crudder.options, crudder.model,
                                       documentOf(crudder.model)))

\* await crudder.deleteByFilter(req, res)
DeleteByFilter ==
    /\ req.params \in ListParams
    /\ Handle("deleteByFilter", deleteByFilter(req.params, crudder.options,
                                               crudder.model, Rows(crudder.model)))

\* await crudder.bulkDeleteByIds(req, res)
BulkDeleteByIds ==
    /\ req.params \in IdsParams
    /\ Handle("bulkDeleteByIds",
              bulkDeleteByIds(req.params, crudder.options, crudder.model,
                              RowsIn(Rows(crudder.model), req.params.ids)))

\* await crudder.deleteById(req, res), the crudder of lib/sequelize.crud.js
LibDeleteById ==
    /\ req.params \in IdParams
    /\ Handle("lib/deleteById", lib_deleteById(req.params, crudder.options,
                                               crudder.model, documentOf(crudder.model)))

\* await crudder.deleteByFilter(req, res), the crudder of lib/sequelize.crud.js
LibDeleteByFilter ==
    /\ req.params \in ListParams
    /\ Handle("lib/deleteByFilter",
              lib_deleteByFilter(req.params, crudder.options, crudder.model,
                                 Rows(crudder.model)))

HandlerNext ==
    \/ Find \/ UpdateByFilter \/ LibUpdateByFilter
    \/ Count \/ FindById \/ Create \/ LibCreate
    \/ UpdateById \/ LibUpdateById
    \/ BulkShowByIds \/ BulkUpdateByIds
    \/ DeleteById \/ DeleteByFilter \/ BulkDeleteByIds
    \/ LibDeleteById \/ LibDeleteByFilter

SpecHandlers == HandlerInit /\ [][HandlerNext]_vars

(***************************************************************************)
(* Deletes over a store.  The model holds records; delete requests reach    *)
(* the handlers one after another, each with its own database failures, and *)
(* the writes the database accepts change the records.                      *)
(***************************************************************************)
\* A record as the model returns it.
Record(i, status) == Obj(<<KV("id", Num(i)), KV("status", status)>>)

\* The value a document holds under a key, undefined when it holds none.
Get(doc, k) ==
    IF \E i \in 1..Len(doc.v) : doc.v[i].k = k
    THEN doc.v[CHOOSE i \in 1..Len(doc.v) : doc.v[i].k = k].v
    ELSE Undefined

\* The stores: up to MaxDocs records, in the order of their ids.
Stores ==
    {st \in SeqsOf({Record(i, status) : i \in 1..MaxDocs, status \in {Active, Pending}},
                   0, MaxDocs) :
        \A i, j \in 1..Len(st) : i < j => Get(st[i], "id").v < Get(st[j], "id").v}

\* The records of rows a where clause of equalities selects.
RECURSIVE Where(_, _)
Where(rows, where) ==
    IF rows = <<>> THEN <<>>
    ELSE (IF \A i \in 1..Len(where.v) : Get(Head(rows), where.v[i].k) = where.v[i].v
          THEN <<Head(rows)>> ELSE <<>>) \o Where(Tail(rows), where)

\* The records of rows whose id is among ids.
RECURSIVE WhereIn(_, _)
WhereIn(rows, ids) ==
    IF rows = <<>> THEN <<>>
    ELSE (IF \E j \in 1..Len(ids.v) : ids.v[j] = Get(Head(rows), "id")
          THEN <<Head(rows)>> ELSE <<>>) \o WhereIn(Tail(rows), ids)

\* The records the query of a filter selects; there is no query when
\* FilterParse throws.
Selected(rows, f) == IF FilterParse(f).err # "" THEN <<>> ELSE Where(rows, f)

\* The first record a where clause selects, null when it selects none.
FirstOf(rows) == IF rows = <<>> THEN Null ELSE Head(rows)

\* The rows after one write the database accepted: destroy and deleteOne
\* remove the record, update and save set the values on it.
RECURSIVE Write(_, _)
Write(rows, call) ==
    IF rows = <<>> THEN <<>>
    ELSE IF call.method \in {"destroy", "deleteOne"}
    THEN (IF Get(Head(rows), "id") = Get(call.options, "id")
          THEN <<>> ELSE <<Head(rows)>>) \o Write(Tail(rows), call)
    ELSE (IF Get(Head(rows), "id") = Get(call.options.document, "id")
          THEN <<Obj(Assign(Head(rows).v, call.options.values.v))>>
          ELSE <<Head(rows)>>) \o Write(Tail(rows), call)

\* The rows after the writes of a handler, the i-th of which the database
\* rejects when i is in rejects.
RECURSIVE Writes(_, _, _, _)
Writes(rows, writes, i, rejects) ==
    IF writes = <<>> THEN rows
    ELSE Writes(IF i \in rejects THEN rows ELSE Write(rows, Head(writes)),
                Tail(writes), i + 1, rejects)

\* The ids of records.
IdsOf(rows) == {Get(rows[i], "id") : i \in 1..Len(rows)}

\* The requests that delete.
DeleteParams ==
    {[NoParams EXCEPT !.id = i] : i \in {Num(1), Unknown}}
    \cup {[NoParams EXCEPT !.filter = f] : f \in RequestFilters}
    \cup {[NoParams EXCEPT !.ids = ids] : ids \in IdLists}

\* The failures of the database during one request: none, a query that
\* throws, or a write that is rejected (the handlers stop at the first).
Failures ==
    {[down |-> TRUE, rejects |-> {}]}
    \cup {[down |-> FALSE, rejects |-> {i \in 1..MaxDocs : i = k}] : k \in 0..MaxDocs}

DeleteInit ==
    /\ filter = Null
    /\ sqlResult = NotCalled
    /\ treeResult = NotCalled
    /\ earlier = NotCalled
    /\ walk = NotCalled
    /\ \E st \in Stores, pd \in {Undefined, Bool(TRUE)} :
         /\ crudder = [called |-> TRUE,
                       options |-> [defaultLimit |-> Undefined, permanentDelete |-> pd],
                       model |-> [rows |-> st, down |-> FALSE, rejects |-> {}],
                       calls |-> <<>>]
         /\ req = [called |-> TRUE, handler |-> "", params |-> NoParams, served |-> 0,
                   before |-> st, prev |-> st, matched |-> {}, done |-> {}]
    /\ res = <<>>

\* One more request reaches a handler.  found are the records its query
\* selects, handled what the handler does with them; the writes the database
\* accepts change the rows.  req keeps the rows at construction (before) and
\* ahead of this request (prev), the ids of the records the deletes found
\* (matched) and of those found by deletes answered 200 (done).
Delete(handler, params, failures, found, handled) ==
    /\ req.served < MaxRequests
    /\ crudder' = [crudder EXCEPT
                     !.model = [rows |-> Writes(crudder.model.rows,
                                                SubSeq(handled.calls, 2, Len(handled.calls)),
                                                1, failures.rejects),
                                down |-> failures.down, rejects |-> failures.rejects],
                     !.calls = handled.calls]
    /\ req' = [req EXCEPT
                 !.handler = handler, !.params = params, !.served = @ + 1,
                 !.prev = crudder.model.rows,
                 !.matched = IF failures.down THEN @ ELSE @ \cup IdsOf(found),
                 !.done = IF handled.sent[1].statusCode = 200 THEN @ \cup IdsOf(found)
                          ELSE @]
    /\ res' = handled.sent
    /\ UNCHANGED translatorVars

\* The model as a handler meets it during a request.
During(failures) ==
    [crudder.model EXCEPT !.down = failures.down, !.rejects = failures.rejects]

\* deleteById of one request after another
DeleteByIdNext(params, failures) ==
    /\ params.id # Undefined
    /\ Delete("deleteById", params, failures,
              Where(crudder.model.rows, Doc1("id", params.id)),
              deleteById(params, crudder.options, During(failures),
                         FirstOf(Where(crudder.model.rows, Doc1("id", params.id)))))

\* deleteByFilter of one request after another
DeleteByFilterNext(params, failures) ==
    /\ params.id = Undefined /\ params.ids = Undefined
    /\ Delete("deleteByFilter", params, failures,
              Selected(crudder.model.rows, params.filter),
              deleteByFilter(params, crudder.options, During(failures),
                             Selected(crudder.model.rows, params.filter)))

\* bulkDeleteByIds of one request after another
BulkDeleteByIdsNext(params, failures) ==
    /\ params.ids # Undefined
    /\ Delete("bulkDeleteByIds", params, failures,
              WhereIn(crudder.model.rows, params.ids),
              bulkDeleteByIds(params, crudder.options, During(failures),
                              WhereIn(crudder.model.rows, params.ids)))

\* deleteById of lib/sequelize.crud.js, one request after another
LibDeleteByIdNext(params, failures) ==
    /\ params.id # Undefined
    /\ Delete("lib/deleteById", params, failures,
              Where(crudder.model.rows, Doc1("id", params.id)),
              lib_deleteById(params, crudder.options, During(failures),
                             FirstOf(Where(crudder.model.rows, Doc1("id", params.id)))))

\* deleteByFilter of lib/sequelize.crud.js, one request after another
LibDeleteByFilterNext(params, failures) ==
    /\ params.id = Undefined /\ params.ids = Undefined
    /\ Delete("lib/deleteByFilter", params, failures,
              Selected(crudder.model.rows, params.filter),
              lib_deleteByFilter(params, crudder.options, During(failures),
                                 Selected(crudder.model.rows, params.filter)))

DeleteNext ==
    \E params \in DeleteParams, failures \in Failures :
        \/ DeleteByIdNext(params, failures)
        \/ DeleteByFilterNext(params, failures)
        \/ BulkDeleteByIdsNext(params, failures)
        \/ LibDeleteByIdNext(params, failures)
        \/ LibDeleteByFilterNext(params, failures)

SpecDeletes == DeleteInit /\ [][DeleteNext]_vars

\* The outcomes of the calls.
SqlReturned == sqlResult.called /\ sqlResult.err = ""
SqlThrew == sqlResult.called /\ sqlResult.err # ""
TreeReturned == treeResult.called /\ treeResult.err = ""
TreeThrew == treeResult.called /\ treeResult.err # ""
WhereClause == Render(sqlResult.whereClause)

(***************************************************************************)
(* Vocabulary of the properties.                                           *)
(***************************************************************************)
\* The values the placeholders of a clause were emitted for, left to right.
RECURSIVE PlaceholderSources(_)
PlaceholderSources(clause) ==
    IF clause = <<>> THEN <<>>
    ELSE (IF Head(clause).t = "ph" THEN <<Head(clause).v>> ELSE <<>>)
         \o PlaceholderSources(Tail(clause))

\* The number of '?' in a clause.
CountPlaceholders(clause) ==
    Cardinality({i \in 1..Len(clause) : clause[i].t = "ph"})

\* strs[1] sep strs[2] sep ... as one string
RECURSIVE JoinStrings(_, _)
JoinStrings(strs, sep) ==
    IF strs = <<>> THEN ""
    ELSE IF Len(strs) = 1 THEN strs[1]
    ELSE strs[1] \o sep \o JoinStrings(Tail(strs), sep)

\* The non-empty strings of a list, in order.
RECURSIVE NonEmptyStrings(_)
NonEmptyStrings(strs) ==
    IF strs = <<>> THEN <<>>
    ELSE (IF Head(strs) # "" THEN <<Head(strs)>> ELSE <<>>)
         \o NonEmptyStrings(Tail(strs))

\* seqs[1] \o seqs[2] \o ...
RECURSIVE Flatten(_)
Flatten(seqs) == IF seqs = <<>> THEN <<>> ELSE Head(seqs) \o Flatten(Tail(seqs))

\* The filter is a document of the one key k.
IsDocOf(k) == filter.t = "obj" /\ Len(filter.v) = 1 /\ filter.v[1].k = k

\* A sub-filter translated on its own.
AloneSql(sub) == convertMongoFilterToSQL(sub, <<>>)
AloneText(subs) == [i \in 1..Len(subs) |-> Render(AloneSql(subs[i]).clause)]
AloneParameters(subs) ==
    Flatten([i \in 1..Len(subs) |-> AloneSql(subs[i]).parameters])

\* The documents of the examples.
NestedExample ==
    Doc1("$and", Arr(<<Doc1("age", Obj(<<KV("$gte", Num(18))>>)),
                       Doc1("$or", Arr(<<Doc1("status", Active),
                                         Doc1("status", Pending)>>))>>))
NorExample == Doc1("$nor", Arr(<<Doc1("status", Active), Doc1("status", Pending)>>))
MultiFieldExample == Obj(<<KV("age", Num(25)), KV("name", John)>>)
RangeExample == Doc1("age", Obj(<<KV("$gte", Num(18)), KV("$lt", Num(65))>>))
InExample == Doc1("age", Obj(<<KV("$in", Arr(<<Active, Pending>>))>>))

(***************************************************************************)
(* C1. Placeholder/parameter alignment: whenever convertMongoFilterToSQL   *)
(* returns, the number of '?' in whereClause equals parameters.length, and *)
(* the Nth '?' from the left was emitted for the value at position N of    *)
(* parameters.                                                             *)
(***************************************************************************)
C1_PlaceholderAlignment ==
    SqlReturned =>
        /\ CountPlaceholders(sqlResult.whereClause) = Len(sqlResult.parameters)
        /\ PlaceholderSources(sqlResult.whereClause) = sqlResult.parameters

\* A nested $and/$or was translated into three placeholders.
C1_Witness ==
    /\ filter = NestedExample
    /\ SqlReturned
    /\ sqlResult.parameters = <<Num(18), Active, Pending>>

(***************************************************************************)
(* C2. Under $and/$or every surviving sub-filter clause is wrapped in its  *)
(* own parentheses and the joined group is wrapped once more; the nested   *)
(* example gives "((age >= ?) AND ((status = ?) OR (status = ?)))" with    *)
(* parameters [18, 'active', 'pending'].                                   *)
(***************************************************************************)
C2_SubClausesWrapped ==
    /\ (filter = NestedExample /\ SqlReturned) =>
           /\ WhereClause = "((age >= ?) AND ((status = ?) OR (status = ?)))"
           /\ sqlResult.parameters = <<Num(18), Active, Pending>>
    /\ \A c \in {"$and", "$or"} :
           (IsDocOf(c) /\ IsArray(filter.v[1].v) /\ SqlReturned) =>
               LET kept == NonEmptyStrings(AloneText(filter.v[1].v.v))
                   wrapped == [i \in 1..Len(kept) |-> "(" \o kept[i] \o ")"]
                   sep == IF c = "$and" THEN " AND " ELSE " OR "
               IN kept # <<>> =>
                      WhereClause = "(" \o JoinStrings(wrapped, sep) \o ")"

(***************************************************************************)
(* C3. $nor is not(or(subFilters)): when at least one sub-filter survives, *)
(* the SQL form is "NOT (A OR B ...)", one negation around the OR-joined   *)
(* clauses of the sub-filters, with their parameters in sub-filter order;  *)
(* the tree form is { [not]: { [or]: [translated sub-filters] } }.         *)
(***************************************************************************)
C3_NorIsNotOfOr ==
    (IsDocOf("$nor") /\ IsArray(filter.v[1].v)) =>
        LET subs == filter.v[1].v.v
            kept == NonEmptyStrings(AloneText(subs))
        IN kept # <<>> =>
            /\ SqlReturned =>
                  /\ WhereClause = "NOT (" \o JoinStrings(kept, " OR ") \o ")"
                  /\ sqlResult.parameters = AloneParameters(subs)
            /\ TreeReturned =>
                  treeResult.tree =
                      Doc1(Op.not,
                           Doc1(Op.or,
                                Arr([i \in 1..Len(subs) |-> FilterParse(subs[i]).tree])))

\* Both translators returned on {$nor: [{status: 'active'}, {status: 'pending'}]}.
C3_Witness ==
    /\ filter = NorExample
    /\ SqlReturned
    /\ WhereClause = "NOT (status = ? OR status = ?)"
    /\ sqlResult.parameters = <<Active, Pending>>
    /\ TreeReturned

(***************************************************************************)
(* C4. Top-level multi-field AND: for a document of several keys,          *)
(* whereClause is the conditions of the keys, in key order, joined by      *)
(* ' AND ' with no enclosing parentheses, and parameters holds their       *)
(* values in the same order.                                               *)
(***************************************************************************)
C4_TopLevelAnd ==
    (filter.t = "obj" /\ Len(filter.v) > 1 /\ SqlReturned) =>
        LET keyDocs == [i \in 1..Len(filter.v) |-> Obj(<<filter.v[i]>>)]
        IN /\ WhereClause = JoinStrings(NonEmptyStrings(AloneText(keyDocs)), " AND ")
           /\ sqlResult.parameters = AloneParameters(keyDocs)
           /\ filter = MultiFieldExample =>
                  /\ WhereClause = "age = ? AND name LIKE ?"
                  /\ sqlResult.parameters =
                         <<Num(25), Str(<<"%", "j", "o", "h", "n", "%">>)>>

\* {age: 25, name: '/john/'} was translated.
C4_Witness ==
    /\ filter = MultiFieldExample
    /\ SqlReturned
    /\ Len(sqlResult.parameters) = 2

(***************************************************************************)
(* C5. Multi-operator field: every key of an operator object becomes one   *)
(* condition, in key order; two or more are joined with ' AND ' inside one *)
(* parenthesis group, exactly one is emitted without grouping.             *)
(***************************************************************************)
C5_MultiOperatorField ==
    (/\ filter.t = "obj" /\ Len(filter.v) = 1
     /\ filter.v[1].k \notin Combinators
     /\ filter.v[1].v.t = "obj" /\ Len(filter.v[1].v.v) > 0
     /\ StartsWithSigil(filter.v[1].v.v[1].k)
     /\ SqlReturned) =>
        LET field == filter.v[1].k
            ops == filter.v[1].v.v
            each == [i \in 1..Len(ops) |-> processOperator(field, ops[i].k, ops[i].v, <<>>)]
            text == [i \in 1..Len(ops) |-> Render(each[i].clause)]
        IN /\ sqlResult.parameters = Flatten([i \in 1..Len(ops) |-> each[i].parameters])
           /\ Len(ops) >= 2 => WhereClause = "(" \o JoinStrings(text, " AND ") \o ")"
           /\ Len(ops) = 1 => WhereClause = text[1]
           /\ filter = RangeExample =>
                  /\ WhereClause = "(age >= ? AND age < ?)"
                  /\ sqlResult.parameters = <<Num(18), Num(65)>>

\* {age: {$gte: 18, $lt: 65}} was translated.
C5_Witness ==
    /\ filter = RangeExample
    /\ SqlReturned
    /\ Len(sqlResult.parameters) = 2
(***************************************************************************)
(* C6. $in/$nin over an array of n elements give "field IN (?, ..., ?)"    *)
(* (resp. NOT IN) with n placeholders and append the n elements in array   *)
(* order; every other atomic comparison, implicit equality and slash       *)
(* pattern appends one parameter; $not appends none of its own.            *)
(***************************************************************************)
QuestionMarks(n) == JoinStrings([i \in 1..n |-> "?"], ", ")

C6_ParameterSlots ==
    (/\ filter.t = "obj" /\ Len(filter.v) = 1
     /\ filter.v[1].k \notin Combinators
     /\ SqlReturned) =>
        LET field == filter.v[1].k
            value == filter.v[1].v
            single == /\ value.t = "obj" /\ Len(value.v) = 1
                      /\ StartsWithSigil(value.v[1].k)
            op == value.v[1].k
            x == value.v[1].v
        IN /\ (single /\ op = "$in") =>
                  /\ WhereClause = field \o " IN (" \o QuestionMarks(Len(x.v)) \o ")"
                  /\ sqlResult.parameters = x.v
           /\ (single /\ op = "$nin") =>
                  /\ WhereClause = field \o " NOT IN (" \o QuestionMarks(Len(x.v)) \o ")"
                  /\ sqlResult.parameters = x.v
           /\ (single /\ op \in CompareKeys) => sqlResult.parameters = <<x>>
           /\ (single /\ op = "$regex") => Len(sqlResult.parameters) = 1
           /\ (single /\ op = "$not") =>
                  sqlResult.parameters = AloneSql(Doc1(field, x)).parameters
           /\ value.t \in {"num", "str", "null"} => Len(sqlResult.parameters) = 1
           /\ value.t \in {"num", "null"} => sqlResult.parameters = <<value>>

\* {age: {$in: ['active', 'pending']}} was translated.
C6_Witness ==
    /\ filter = InExample
    /\ SqlReturned
    /\ WhereClause = "age IN (?, ?)"
    /\ sqlResult.parameters = <<Active, Pending>>

(***************************************************************************)
(* C7. A non-array operand of $in or $nin makes the translation fail, in   *)
(* the SQL form and in the tree form alike.                                *)
(***************************************************************************)
C7_NonArrayInFails ==
    (/\ filter.t = "obj" /\ Len(filter.v) = 1
     /\ filter.v[1].k \notin Combinators
     /\ filter.v[1].v.t = "obj" /\ Len(filter.v[1].v.v) > 0
     /\ StartsWithSigil(filter.v[1].v.v[1].k)
     /\ \E i \in 1..Len(filter.v[1].v.v) :
            /\ filter.v[1].v.v[i].k \in {"$in", "$nin"}
            /\ ~IsArray(filter.v[1].v.v[i].v)) =>
        /\ sqlResult.called => SqlThrew
        /\ treeResult.called => TreeThrew

(***************************************************************************)
(* C8. A combinator key ($and, $or, $nor) whose value is not an array, in  *)
(* the document, in a sub-filter at any depth or in an operator object,    *)
(* makes the translation fail, in both forms.                              *)
(***************************************************************************)
\* An operator object holding a combinator key over a non-array, at any depth
\* of $not.
RECURSIVE OperandHasNonArrayCombinator(_)
OperandHasNonArrayCombinator(value) ==
    /\ value.t = "obj" /\ Len(value.v) > 0
    /\ StartsWithSigil(value.v[1].k)
    /\ \E i \in 1..Len(value.v) :
           \/ value.v[i].k \in Combinators /\ ~IsArray(value.v[i].v)
           \/ value.v[i].k = "$not" /\ OperandHasNonArrayCombinator(value.v[i].v)

\* A document holding a combinator key over a non-array, at any depth.
RECURSIVE HasNonArrayCombinator(_)
HasNonArrayCombinator(doc) ==
    /\ doc.t = "obj"
    /\ \E i \in 1..Len(doc.v) :
           IF doc.v[i].k \in Combinators
           THEN \/ ~IsArray(doc.v[i].v)
                \/ \E j \in 1..Len(doc.v[i].v.v) :
                       HasNonArrayCombinator(doc.v[i].v.v[j])
           ELSE OperandHasNonArrayCombinator(doc.v[i].v)

C8_NonArrayCombinatorFails ==
    HasNonArrayCombinator(filter) =>
        /\ sqlResult.called => SqlThrew
        /\ treeResult.called => TreeThrew

\* Both translators threw on {$and: [{$or: 'active'}]}.
C8_Witness ==
    /\ filter = Doc1("$and", Arr(<<Doc1("$or", Active)>>))
    /\ SqlThrew
    /\ TreeThrew

(***************************************************************************)
(* C9. Empty filter: the SQL form returns whereClause "" and parameters [] *)
(* for {} and for null; the tree form returns {} for {}.                   *)
(***************************************************************************)
C9_EmptyFilter ==
    /\ (filter \in {Obj(<<>>), Null} /\ sqlResult.called) =>
           /\ SqlReturned
           /\ WhereClause = ""
           /\ sqlResult.parameters = <<>>
    /\ (filter = Obj(<<>>) /\ treeResult.called) =>
           /\ TreeReturned
           /\ treeResult.tree = Obj(<<>>)

\* Both translators were called on {}.
C9_Witness ==
    /\ filter = Obj(<<>>)
    /\ sqlResult.called
    /\ treeResult.called

(***************************************************************************)
(* C10. Slash-pattern compilation: for "/body/", with the slashes, a       *)
(* leading '^' and a trailing '$' removed, the wildcard string is what     *)
(* remains with '%' prepended iff no '^' was stripped and '%' appended iff *)
(* no '$' was stripped, in the SQL form and the tree form alike.           *)
(***************************************************************************)
\* The wildcard string the rule gives for the characters between the slashes.
Wildcard(inner) ==
    LET caret == inner # <<>> /\ Head(inner) = "^"
        dollar == inner # <<>> /\ inner[Len(inner)] = "$"
        body == SubSeq(inner, IF caret THEN 2 ELSE 1,
                       IF dollar THEN Len(inner) - 1 ELSE Len(inner))
    IN (IF caret THEN <<>> ELSE <<"%">>) \o body \o (IF dollar THEN <<>> ELSE <<"%">>)

C10_SlashPattern ==
    (/\ filter.t = "obj" /\ Len(filter.v) = 1
     /\ filter.v[1].k \notin Combinators
     /\ filter.v[1].v.t = "str"
     /\ Len(filter.v[1].v.v) >= 2
     /\ Head(filter.v[1].v.v) = "/"
     /\ filter.v[1].v.v[Len(filter.v[1].v.v)] = "/") =>
        LET field == filter.v[1].k
            s == filter.v[1].v.v
            like == Str(Wildcard(SubSeq(s, 2, Len(s) - 1)))
        IN /\ sqlResult.called =>
                  /\ SqlReturned
                  /\ WhereClause = field \o " LIKE ?"
                  /\ sqlResult.parameters = <<like>>
           /\ treeResult.called =>
                  /\ TreeReturned
                  /\ treeResult.tree = Doc1(field, Doc1(Op.like, like))

\* Both translators compiled "/^a$/" to "a".
C10_Witness ==
    /\ filter = Doc1("age", Str(<<"/", "^", "a", "$", "/">>))
    /\ SqlReturned
    /\ sqlResult.parameters = <<Str(<<"a">>)>>
    /\ TreeReturned
    /\ treeResult.tree = Doc1("age", Doc1(Op.like, Str(<<"a">>)))

(***************************************************************************)
(* Vocabulary of the field-level properties.                               *)
(***************************************************************************)
\* The filter is a document of one field key.
IsFieldDoc ==
    /\ filter.t = "obj" /\ Len(filter.v) = 1
    /\ filter.v[1].k \notin Combinators

FieldName == filter.v[1].k
FieldValue == filter.v[1].v

\* A string of length at least 2 whose first and last characters are '/'.
IsSlashLiteral(value) ==
    /\ value.t = "str"
    /\ Len(value.v) >= 2
    /\ Head(value.v) = "/"
    /\ value.v[Len(value.v)] = "/"

\* The field value is an operator object of the one key op.
IsSingleOperator(op) ==
    /\ IsFieldDoc
    /\ FieldValue.t = "obj" /\ Len(FieldValue.v) = 1
    /\ FieldValue.v[1].k = op

Operand == FieldValue.v[1].v

(***************************************************************************)
(* C11. Field value dispatch for strings and scalars: a slash-literal      *)
(* string gives the single condition "field LIKE ?" with the compiled      *)
(* wildcard as its one parameter, {like: wildcard} in the tree form; every *)
(* other string, number, null or date gives "field = ?" with the value as  *)
(* its one parameter, {eq: value} in the tree form.                        *)
(***************************************************************************)
C11_ScalarDispatch ==
    IsFieldDoc =>
        /\ IsSlashLiteral(FieldValue) =>
              LET like == Str(Wildcard(SubSeq(FieldValue.v, 2, Len(FieldValue.v) - 1)))
              IN /\ sqlResult.called =>
                        /\ SqlReturned
                        /\ WhereClause = FieldName \o " LIKE ?"
                        /\ sqlResult.parameters = <<like>>
                 /\ treeResult.called =>
                        /\ TreeReturned
                        /\ treeResult.tree = Doc1(FieldName, Doc1(Op.like, like))
        /\ (FieldValue.t \in {"num", "str", "null", "date"}
            /\ ~IsSlashLiteral(FieldValue)) =>
              /\ sqlResult.called =>
                    /\ SqlReturned
                    /\ WhereClause = FieldName \o " = ?"
                    /\ sqlResult.parameters = <<FieldValue>>
              /\ treeResult.called =>
                    /\ TreeReturned
                    /\ treeResult.tree = Doc1(FieldName, Doc1(Op.eq, FieldValue))

\* Both translators took the string "/a", which only starts with a slash, for
\* an equality.
C11_Witness ==
    /\ filter = Doc1("age", Str(<<"/", "a">>))
    /\ SqlReturned
    /\ WhereClause = "age = ?"
    /\ TreeReturned
    /\ treeResult.tree = Doc1("age", Doc1(Op.eq, Str(<<"/", "a">>)))

(***************************************************************************)
(* C12. Bare array value: a field whose value is an array gives one        *)
(* membership condition over the whole array, "field IN (?, ..., ?)" with  *)
(* one placeholder and one parameter per element in the SQL form and       *)
(* {in: array} in the tree form, never an equality against the array.      *)
(***************************************************************************)
C12_BareArray ==
    (IsFieldDoc /\ IsArray(FieldValue)) =>
        /\ sqlResult.called =>
              /\ SqlReturned
              /\ WhereClause =
                     FieldName \o " IN (" \o QuestionMarks(Len(FieldValue.v)) \o ")"
              /\ sqlResult.parameters = FieldValue.v
        /\ treeResult.called =>
              /\ TreeReturned
              /\ treeResult.tree = Doc1(FieldName, Doc1(Op.in, FieldValue))

(***************************************************************************)
(* C13. An explicit $regex resolves to a like condition in both forms:     *)
(* {field: {$regex: p}} gives "field LIKE ?" with the anchor-compiled      *)
(* wildcard as its parameter in the SQL form and {field: {[like]:          *)
(* wildcard}} in the tree form, and neither translation fails.             *)
(***************************************************************************)
\* No character of the pattern is a LIKE metacharacter.
PlainPattern(p) == \A i \in 1..Len(p) : p[i] \notin {"%", "_"}

C13_RegexIsLike ==
    (IsSingleOperator("$regex") /\ PlainPattern(Operand.v)) =>
        LET like == Str(Wildcard(Operand.v))
        IN /\ sqlResult.called =>
                  /\ SqlReturned
                  /\ WhereClause = FieldName \o " LIKE ?"
                  /\ sqlResult.parameters = <<like>>
           /\ treeResult.called =>
                  /\ TreeReturned
                  /\ treeResult.tree = Doc1(FieldName, Doc1(Op.like, like))

(***************************************************************************)
(* C14. Closed operator set: an operator object holding a key outside      *)
(* {$eq, $ne, $gt, $gte, $lte, $lt, $in, $nin, $like, $notLike, $iLike,    *)
(* $notILike, $regexp, $notRegexp, $between, $notBetween, $is, $not, $and, *)
(* $or, $nor, $regex} makes the translation fail, and no key inside the    *)
(* set is refused as unsupported, in the SQL form and the tree form alike. *)
(***************************************************************************)
ClosedOperatorSet ==
    {"$eq", "$ne", "$gt", "$gte", "$lte", "$lt", "$in", "$nin", "$like",
     "$notLike", "$iLike", "$notILike", "$regexp", "$notRegexp", "$between",
     "$notBetween", "$is", "$not", "$and", "$or", "$nor", "$regex"}

\* The field value is an operator object.
IsOperatorObject ==
    /\ IsFieldDoc
    /\ FieldValue.t = "obj" /\ Len(FieldValue.v) > 0
    /\ StartsWithSigil(FieldValue.v[1].k)

C14_ClosedOperatorSet ==
    IsOperatorObject =>
        /\ (\E i \in 1..Len(FieldValue.v) : FieldValue.v[i].k \notin ClosedOperatorSet) =>
              /\ sqlResult.called => SqlThrew
              /\ treeResult.called => TreeThrew
        /\ sqlResult.called =>
              sqlResult.err \notin
                  {"Unsupported MongoDB operator: " \o k : k \in ClosedOperatorSet}
        /\ treeResult.called =>
              treeResult.err \notin
                  {"Unsupported operator: " \o k : k \in ClosedOperatorSet}

(***************************************************************************)
(* C15. $not is unary and recursive: {field: {$not: X}} translates X as a  *)
(* condition on the same field, whatever X is, and wraps it in one         *)
(* negation: "NOT (<inner>)" with exactly the parameters of the inner      *)
(* condition in the SQL form, {[not]: <inner tree node>} in the tree form. *)
(* {age: {$not: {$gt: 25}}} gives "NOT (age > ?)" with [25].               *)
(***************************************************************************)
NotExample == Doc1("age", Doc1("$not", Doc1("$gt", Num(25))))

C15_NotIsUnary ==
    IsSingleOperator("$not") =>
        LET innerSql == AloneSql(Doc1(FieldName, Operand))
            innerTree == FilterParse(Doc1(FieldName, Operand))
        IN /\ (sqlResult.called /\ innerSql.err = "") =>
                  /\ SqlReturned
                  /\ WhereClause = "NOT (" \o Render(innerSql.clause) \o ")"
                  /\ sqlResult.parameters = innerSql.parameters
           /\ (treeResult.called /\ innerTree.err = "") =>
                  /\ TreeReturned
                  /\ treeResult.tree =
                         Doc1(FieldName, Doc1(Op.not, innerTree.tree.v[1].v))
           /\ (filter = NotExample /\ sqlResult.called) =>
                  /\ WhereClause = "NOT (age > ?)"
                  /\ sqlResult.parameters = <<Num(25)>>
           /\ (filter = NotExample /\ treeResult.called) =>
                  treeResult.tree =
                      Doc1("age", Doc1(Op.not, Doc1(Op.gt, Num(25))))

\* Both translators negated the operator object of {age: {$not: {$gt: 25}}}.
C15_Witness ==
    /\ filter = NotExample
    /\ SqlReturned
    /\ WhereClause = "NOT (age > ?)"
    /\ TreeReturned

(***************************************************************************)
(* C16. Tree form, multi-operator field: an operator object of k keys that *)
(* map to k distinct tokens gives the one mapping                          *)
(* { field: { [token1]: v1, ..., [tokenk]: vk } } of exactly k operator    *)
(* keys, each carrying the operand of its source key (for $not, the        *)
(* translated operand), and not an and-joined list of one-operator nodes.  *)
(***************************************************************************)
\* The operand an operator key carries in the tree.
Carried(field, entry) ==
    IF entry.k = "$not" THEN FilterParse(Doc1(field, entry.v)).tree.v[1].v
    ELSE entry.v

C16_TreeMultiOperator ==
    (IsOperatorObject /\ TreeReturned) =>
        LET ops == FieldValue.v
            tokens == [i \in 1..Len(ops) |-> seqOpOf(ops[i].k)]
            node == treeResult.tree.v[1].v
        IN (\A i, j \in 1..Len(ops) : tokens[i] = tokens[j] => i = j) =>
              /\ treeResult.tree.t = "obj"
              /\ Len(treeResult.tree.v) = 1
              /\ treeResult.tree.v[1].k = FieldName
              /\ node.t = "obj"
              /\ Len(node.v) = Len(ops)
              /\ \A i \in 1..Len(ops) :
                     node.v[i] = KV(tokens[i], Carried(FieldName, ops[i]))
              /\ \A i \in 1..Len(node.v) : node.v[i].k \notin {Op.and, Op.or}

\* {age: {$gte: 18, $lt: 65}} became {age: {[gte]: 18, [lt]: 65}}.
C16_Witness ==
    /\ filter = RangeExample
    /\ TreeReturned
    /\ treeResult.tree =
           Doc1("age", Obj(<<KV(Op.gte, Num(18)), KV(Op.lt, Num(65))>>))

Answered(h) == req.called /\ req.handler = h

\* find reached model.findAll.
FoundAll == Answered("find") /\ crudder.calls # <<>>
FindAllOptions == crudder.calls[1].options

\* The request supplies a limit.
LimitSupplied == req.params.limit.t \notin {"undef", "null"}

\* No limit was applied: findAll got neither limit nor offset, and a plain
\* answer holds every matching row.
NoLimitApplied ==
    /\ FindAllOptions.limit = Undefined
    /\ FindAllOptions.offset = Undefined
    /\ (res[1].statusCode = 200 /\ ~Truthy(req.params.metadata)) =>
           res[1].data = Arr(Rows(crudder.model))

\* The limit l was applied: findAll got it with the request's offset, and a
\* plain answer holds at most l rows.
LimitApplied(l) ==
    /\ FindAllOptions.limit = l
    /\ FindAllOptions.offset = OrElse(req.params.skip, Num(0))
    /\ (res[1].statusCode = 200 /\ ~Truthy(req.params.metadata)) =>
           Len(res[1].data.v) <= l.v

(***************************************************************************)
(* C18. defaultLimit priority in find: a limit supplied by the request is  *)
(* applied; without one, options.defaultLimit is applied if it is set; if  *)
(* neither is present no limit is applied; a request limit of -1 returns   *)
(* all records regardless of defaultLimit.                                 *)
(***************************************************************************)
C18_DefaultLimitPriority ==
    FoundAll =>
        /\ (LimitSupplied /\ req.params.limit # Num(-1)) =>
               LimitApplied(req.params.limit)
        /\ (~LimitSupplied /\ crudder.options.defaultLimit # Undefined) =>
               LimitApplied(crudder.options.defaultLimit)
        /\ (~LimitSupplied /\ crudder.options.defaultLimit = Undefined) =>
               NoLimitApplied
        /\ req.params.limit = Num(-1) => NoLimitApplied

(***************************************************************************)
(* C18, amended.  A limit supplied by the request other than 0 and -1 is   *)
(* applied; without one (undefined or null), options.defaultLimit is       *)
(* applied if it is a number other than 0 and -1; if neither is present no *)
(* limit is applied; a request limit of -1 or of 0 returns all records     *)
(* regardless of defaultLimit, and so does a defaultLimit of 0 when the    *)
(* request supplies no limit.                                              *)
(***************************************************************************)
C18_DefaultLimitPriorityAmended ==
    FoundAll =>
        /\ (LimitSupplied /\ req.params.limit \notin {Num(0), Num(-1)}) =>
               LimitApplied(req.params.limit)
        /\ (~LimitSupplied
            /\ crudder.options.defaultLimit \notin {Undefined, Num(0), Num(-1)}) =>
               LimitApplied(crudder.options.defaultLimit)
        /\ (~LimitSupplied
            /\ crudder.options.defaultLimit \in {Undefined, Num(0), Num(-1)}) =>
               NoLimitApplied
        /\ req.params.limit \in {Num(0), Num(-1)} => NoLimitApplied

\* A request without a limit was answered with one row of two under a
\* defaultLimit of 1.
C18_Witness ==
    /\ FoundAll
    /\ req.params.limit = Undefined
    /\ crudder.options.defaultLimit = Num(1)
    /\ crudder.model.matching = 2
    /\ res = <<Respond(200, Arr(<<Row(1)>>))>>

(***************************************************************************)
(* C19. updateByFilter with a single data object: whenever the filter      *)
(* matches at least one record and every update succeeds, the handler      *)
(* responds with status 200 and a JSON array holding one entry per matched *)
(* record.                                                                 *)
(***************************************************************************)
C19_UpdateByFilterArray ==
    (/\ Answered("updateByFilter") \/ Answered("lib/updateByFilter")
     /\ ~IsArray(req.params.data)
     /\ FilterParse(req.params.filter).err = ""
     /\ ~crudder.model.down
     /\ crudder.model.matching >= 1
     /\ \A i \in 1..crudder.model.matching : i \notin crudder.model.rejects) =>
        /\ Len(res) = 1
        /\ res[1].statusCode = 200
        /\ IsArray(res[1].data)
        /\ Len(res[1].data.v) = crudder.model.matching

(***************************************************************************)
(* C20. $and and $or in the SQL form: the joined sub-conditions are        *)
(* wrapped in one parenthesis group only if more than one sub-condition    *)
(* survives; when exactly one survives, its clause is returned unwrapped.  *)
(***************************************************************************)
C20_WrapOnlySeveral ==
    \A c \in {"$and", "$or"} :
        (IsDocOf(c) /\ IsArray(filter.v[1].v) /\ SqlReturned) =>
            LET kept == NonEmptyStrings(AloneText(filter.v[1].v.v))
                sep == IF c = "$and" THEN " AND " ELSE " OR "
            IN /\ Len(kept) > 1 => WhereClause = "(" \o JoinStrings(kept, sep) \o ")"
               /\ Len(kept) = 1 => WhereClause = kept[1]

\* A document that holds no condition: {}, or combinators only, each over an
\* array of such documents.
RECURSIVE HoldsNoCondition(_)
HoldsNoCondition(doc) ==
    /\ doc.t = "obj"
    /\ \A i \in 1..Len(doc.v) :
           /\ doc.v[i].k \in Combinators
           /\ IsArray(doc.v[i].v)
           /\ \A j \in 1..Len(doc.v[i].v.v) : HoldsNoCondition(doc.v[i].v.v[j])

\* The sub-filters of a list that hold a condition, in order.
RECURSIVE Surviving(_)
Surviving(subs) ==
    IF subs = <<>> THEN <<>>
    ELSE (IF HoldsNoCondition(Head(subs)) THEN <<>> ELSE <<Head(subs)>>)
         \o Surviving(Tail(subs))

(***************************************************************************)
(* C21. Empty sub-conditions under a combinator, in both forms: the        *)
(* sub-filters that translate to an empty condition, such as {}, are       *)
(* dropped before combining, and a combinator left with no sub-condition   *)
(* (an empty array included) contributes nothing, so {$and: []},           *)
(* {$or: [{}]} and {$nor: []} translate exactly like the empty filter:     *)
(* whereClause "" with parameters [], and the tree {}.                     *)
(***************************************************************************)
C21_EmptySubConditions ==
    /\ (HoldsNoCondition(filter) /\ sqlResult.called) =>
           /\ SqlReturned
           /\ WhereClause = ""
           /\ sqlResult.parameters = <<>>
    /\ (HoldsNoCondition(filter) /\ treeResult.called) =>
           /\ TreeReturned
           /\ treeResult.tree = Obj(<<>>)
    /\ \A c \in Combinators :
           (IsDocOf(c) /\ IsArray(filter.v[1].v)) =>
               LET kept == Doc1(c, Arr(Surviving(filter.v[1].v.v)))
               IN /\ SqlReturned =>
                         /\ WhereClause = Render(AloneSql(kept).clause)
                         /\ sqlResult.parameters = AloneSql(kept).parameters
                  /\ TreeReturned => treeResult.tree = FilterParse(kept).tree

\* A field value of invalid shape: {} or an object, no array, none of whose
\* keys starts with the operator sigil.
IsInvalidShape(value) ==
    /\ value.t = "obj"
    /\ \A i \in 1..Len(value.v) : ~StartsWithSigil(value.v[i].k)

(***************************************************************************)
(* C22. Invalid filter shape: a field whose value is the empty object {}   *)
(* or a non-array object whose keys do not start with the operator sigil   *)
(* makes the translation fail, in both forms; the value is never           *)
(* translated as an equality against the object.                           *)
(***************************************************************************)
C22_InvalidShapeFails ==
    (IsFieldDoc /\ IsInvalidShape(FieldValue)) =>
        /\ sqlResult.called =>
              /\ SqlThrew
              /\ WhereClause # FieldName \o " = ?"
        /\ treeResult.called =>
              /\ TreeThrew
              /\ treeResult.tree # Doc1(FieldName, Doc1(Op.eq, FieldValue))

\* The wildcard string of a $regex pattern: the anchors stripped, every '%'
\* and '_' of what remains preceded by a backslash, then '%' on each side that
\* had no anchor.
EscapedWildcard(inner) ==
    LET caret == inner # <<>> /\ Head(inner) = "^"
        dollar == inner # <<>> /\ inner[Len(inner)] = "$"
        body == SubSeq(inner, IF caret THEN 2 ELSE 1,
                       IF dollar THEN Len(inner) - 1 ELSE Len(inner))
        escaped == Flatten([i \in 1..Len(body) |->
                              IF body[i] \in {"%", "_"} THEN <<"\\", body[i]>>
                              ELSE <<body[i]>>])
    IN (IF caret THEN <<>> ELSE <<"%">>) \o escaped \o (IF dollar THEN <<>> ELSE <<"%">>)

(***************************************************************************)
(* C23. $regex escaping: for {field: {$regex: p}} the literal '%' and '_'  *)
(* of the pattern body, after the anchors are stripped, are escaped as     *)
(* '\%' and '\_' before the wildcards are added, in the SQL form and in    *)
(* the tree form alike.                                                    *)
(***************************************************************************)
C23_RegexEscaping ==
    (IsSingleOperator("$regex") /\ Operand.t = "str" /\ ~PlainPattern(Operand.v)) =>
        LET like == Str(EscapedWildcard(Operand.v))
        IN /\ SqlReturned => sqlResult.parameters = <<like>>
           /\ treeResult.called =>
                  /\ TreeReturned
                  /\ treeResult.tree = Doc1(FieldName, Doc1(Op.like, like))

\* The first error of a list of outcomes, "" when none failed.
FirstError(errs) ==
    IF \A i \in 1..Len(errs) : errs[i] = "" THEN ""
    ELSE errs[CHOOSE i \in 1..Len(errs) :
                  errs[i] # "" /\ \A j \in 1..(i - 1) : errs[j] = ""]

\* The operators the SQL form translates.
SqlOperators ==
    {"$eq", "$ne", "$gt", "$gte", "$lt", "$lte", "$in", "$nin", "$regex", "$not"}

\* The error the first failing place of a document raises, visiting the keys,
\* the sub-filters and the operators in order; "" when no place fails.
RECURSIVE ErrorOfValue(_, _)
RECURSIVE ErrorOfDoc(_, _)
ErrorOfOperator(form, operator, value) ==
    IF form = "sql"
    THEN IF operator \in {"$in", "$nin"}
         THEN IF IsArray(value) THEN ""
              ELSE operator \o " operator requires an array value"
         ELSE IF operator = "$not" THEN ErrorOfValue(form, value)
         ELSE IF operator \in SqlOperators THEN ""
         ELSE "Unsupported MongoDB operator: " \o operator
    ELSE IF ~InOperatorMap(operator) THEN "Unsupported operator: " \o operator
         ELSE IF operator = "$not" THEN ErrorOfValue(form, value)
         ELSE ""

ErrorOfValue(form, value) ==
    IF /\ value.t \in {"obj", "regexp"}
       /\ Len(Entries(value)) > 0
       /\ StartsWithSigil(Entries(value)[1].k)
    THEN FirstError([i \in 1..Len(Entries(value)) |->
                        ErrorOfOperator(form, Entries(value)[i].k, Entries(value)[i].v)])
    ELSE ""

ErrorOfKey(form, key, value) ==
    IF key \in Combinators
    THEN IF ~IsArray(value) THEN key \o " operator requires an array"
         ELSE FirstError([i \in 1..Len(value.v) |-> ErrorOfDoc(form, value.v[i])])
    ELSE ErrorOfValue(form, value)

ErrorOfDoc(form, doc) ==
    IF doc.t \notin (IF form = "sql" THEN {"obj", "arr", "regexp", "date"}
                     ELSE {"obj", "regexp", "date"})
    THEN ""
    ELSE FirstError([i \in 1..Len(Entries(doc)) |->
                        ErrorOfKey(form, Entries(doc)[i].k, Entries(doc)[i].v)])

(***************************************************************************)
(* C24. Failures propagate immediately: an error raised at any depth (an   *)
(* unsupported operator, a non-array operand of $in or $nin, a non-array   *)
(* combinator operand) makes the top-level call fail with that error.  No  *)
(* partial whereClause, parameters or tree is returned, and the keys after *)
(* the failing one are not translated: the error is the one of the first   *)
(* failing place in visiting order, and a call fails only when a place     *)
(* raised.                                                                 *)
(***************************************************************************)
C24_FailuresPropagate ==
    /\ sqlResult.called =>
           /\ sqlResult.err = ErrorOfDoc("sql", filter)
           /\ SqlThrew => sqlResult.whereClause = <<>> /\ sqlResult.parameters = <<>>
    /\ treeResult.called =>
           /\ treeResult.err = ErrorOfDoc("tree", filter)
           /\ TreeThrew => treeResult.tree = Null

\* On a document whose two keys both fail each form reported the first key
\* that fails in it: the SQL form the non-array $in, the tree form, which
\* lets that operand pass, the non-array $or after it.
C24_Witness ==
    /\ filter = Obj(<<KV("age", Obj(<<KV("$in", Num(18))>>)), KV("$or", Active)>>)
    /\ SqlThrew
    /\ sqlResult.err = "$in operator requires an array value"
    /\ TreeThrew
    /\ treeResult.err = "$or operator requires an array"

(***************************************************************************)
(* C25. Invocations do not share state: every top-level invocation called  *)
(* with a filter only allocates its own parameter list or tree root.  For  *)
(* any two invocations, one after the other or with others between them,   *)
(* each result equals the result the same call gives when it is the only   *)
(* call made, and no object that one result refers to is referred to by    *)
(* the other, so that a later change of one result never changes the       *)
(* other.                                                                  *)
(***************************************************************************)
C25_NoSharedState ==
    /\ sqlResult.called =>
           LET alone == convertMongoFilterToSQL(sqlResult.of, <<>>)
           IN /\ sqlResult.err = alone.err
              /\ sqlResult.whereClause = alone.clause
              /\ sqlResult.parameters = alone.parameters
    /\ treeResult.called =>
           LET alone == FilterParse(treeResult.of)
           IN treeResult.err = alone.err /\ treeResult.tree = alone.tree
    /\ earlier.called => ~earlier.aliased

\* The outcome of the whole call followed by `walk`, computed at once.
WalkedAtOnce ==
    IF walk.form = "sql" THEN convertMongoFilterToSQL(walk.of, <<>>).err
    ELSE FilterParse(walk.of).err

\* No key was visited twice.
NoKeyTwice ==
    \A i, j \in 1..Len(walk.visited) : walk.visited[i] = walk.visited[j] => i = j

\* The number of keys of a value: those of a document, of the sub-filters of
\* its combinators and of the operator objects under its fields.
RECURSIVE KeyCount(_)
KeyCount(x) ==
    IF x.t = "obj"
    THEN Len(x.v) + KeyCount(Arr([i \in 1..Len(x.v) |-> x.v[i].v]))
    ELSE IF x.t = "arr"
    THEN IF x.v = <<>> THEN 0 ELSE KeyCount(Head(x.v)) + KeyCount(Arr(Tail(x.v)))
    ELSE 0

(***************************************************************************)
(* C26. Termination: for every finite filter document each translator      *)
(* terminates, returning a result or failing, after visiting each key of   *)
(* the document at most once.                                              *)
(***************************************************************************)
C26_Termination ==
    /\ [](walk.called =>
            /\ NoKeyTwice
            /\ Len(walk.visited) <= KeyCount(walk.of)
            /\ walk.outcome = "returned" => WalkedAtOnce = ""
            /\ walk.outcome = "threw" => WalkedAtOnce # "")
    /\ (walk.called ~> (walk.called /\ walk.outcome # ""))

\* The SQL call on the nested example returned after its six keys ($and, age,
\* $gte, $or, status, status).
C26_Witness ==
    /\ walk.called
    /\ walk.form = "sql"
    /\ walk.of = NestedExample
    /\ walk.outcome = "returned"
    /\ Len(walk.visited) = KeyCount(NestedExample)

(***************************************************************************)
(* C27. Neither convertMongoFilterToSQL nor parseSQLFilter.FilterParse     *)
(* modifies its input: during a translation and after it has returned or   *)
(* failed, the filter document passed in, with all its nested objects and  *)
(* arrays, is what it was before the call.                                 *)
(***************************************************************************)
C27_InputNotModified == walk.called => filter = walk.of

\* The tree call failed on the second key of a document after the first key
\* was assigned.
C27_Witness ==
    /\ walk.called
    /\ walk.form = "tree"
    /\ walk.of = Obj(<<KV("age", Num(25)), KV("$or", Active)>>)
    /\ walk.outcome = "threw"
    /\ walk.visited = <<<<1>>, <<2>>>>

\* C28: every invocation of a handler of either crudder, whatever the model
\* calls return or throw, has sent exactly one response once it has run;
\* updateById on an existing record answers too.
C28_ExactlyOneResponse ==
    (req.called /\ req.handler # "") => Len(res) = 1

\* The documents of the create request that the model rejected, and those it
\* took.
FailedDocuments ==
    {i \in 1..Len(documentsOf(req.params.data)) : i \in crudder.model.rejects}
SucceededDocuments ==
    {i \in 1..Len(documentsOf(req.params.data)) : i \notin crudder.model.rejects}

\* C29: the status create answers with follows the outcomes of its documents:
\* 200 exactly when none failed and one or more succeeded, 207 exactly when
\* one or more succeeded and one or more failed, 400 exactly when none
\* succeeded.
C29_StatusByOutcomes ==
    Answered("create") =>
        /\ res[1].statusCode = 200
            <=> (FailedDocuments = {} /\ SucceededDocuments # {})
        /\ res[1].statusCode = 207
            <=> (FailedDocuments # {} /\ SucceededDocuments # {})
        /\ res[1].statusCode = 400 <=> SucceededDocuments = {}

\* The crudder deletes softly: options.permanentDelete is not set.
SoftDelete == crudder.called /\ ~Truthy(crudder.options.permanentDelete)

\* The record of rows with an id; null when rows hold none.
RecordOf(rows, id) == FirstOf(Where(rows, Doc1("id", id)))

\* The record has the permanentDeleteField set to true.
Flagged(doc) == Get(doc, permanentDeleteField) = Bool(TRUE)

\* Every record that existed at construction is still in the store.
NoneRemoved == IdsOf(req.before) \subseteq IdsOf(crudder.model.rows)

\* The records no delete has found are as they were at construction.
UnmatchedUnchanged ==
    \A id \in IdsOf(req.before) \ req.matched :
        RecordOf(crudder.model.rows, id) = RecordOf(req.before, id)

\* The last request was a deleteById whose findOne found no record.
DeletedByIdNoMatch ==
    /\ req.handler \in {"deleteById", "lib/deleteById"}
    /\ ~crudder.model.down
    /\ RecordOf(req.prev, req.params.id) = Null

\* deleteById on an id that matches no record responds 404 and changes nothing.
NoMatchNotFound ==
    DeletedByIdNoMatch => (res[1].statusCode = 404 /\ crudder.model.rows = req.prev)

\* C30 as stated: under soft delete, after any sequence of deletes, every
\* record that existed before is still in the store, each record a delete
\* matched has the permanentDeleteField set to true, the records not matched
\* are unchanged, and deleteById on an id that matches no record responds 404
\* and changes nothing.
C30_SoftDeleteFlagsMatched ==
    (SoftDelete /\ req.served > 0) =>
        /\ NoneRemoved
        /\ \A id \in req.matched : Flagged(RecordOf(crudder.model.rows, id))
        /\ UnmatchedUnchanged
        /\ NoMatchNotFound

\* C30 amended: under soft delete, after any sequence of deletes, every record
\* that existed before is still in the store, each record matched by a delete
\* that was answered 200 has the permanentDeleteField set to true, every
\* other record a delete matched is either as it was or so flagged, the
\* records not matched are unchanged, and deleteById on an id that matches no
\* record responds 404 and changes nothing.
C30_SoftDeleteNeverRemoves ==
    (SoftDelete /\ req.served > 0) =>
        /\ NoneRemoved
        /\ \A id \in req.done : Flagged(RecordOf(crudder.model.rows, id))
        /\ \A id \in req.matched \ req.done :
              \/ RecordOf(crudder.model.rows, id) = RecordOf(req.before, id)
              \/ RecordOf(crudder.model.rows, id)
                    = Obj(Put(RecordOf(req.before, id).v, permanentDeleteField, Bool(TRUE)))
        /\ UnmatchedUnchanged
        /\ NoMatchNotFound

\* Three soft deletes in a row: the last, a deleteById, found no record; the
\* earlier ones flagged one record that was not flagged before, failed on
\* another, and left a third record unmatched.
C30_Witness ==
    /\ SoftDelete
    /\ req.served = MaxRequests
    /\ DeletedByIdNoMatch
    /\ res[1].statusCode = 404
    /\ \E id \in req.done : ~Flagged(RecordOf(req.before, id))
    /\ req.matched # req.done
====
